---------------------------- MODULE Spec2Model ----------------------------
(***************************************************************************)
(* A model of the courtroom's adjudication and sanction engine:            *)
(*   - the opinion parser, the vote aggregator, the sanction tier resolver *)
(*     and the verdict formatter of src/src/hearing.js (pure functions);   *)
(*   - conductHearing of src/src/hearing.js (one hearing, its evaluator    *)
(*     calls in flight);                                                   *)
(*   - the punishment engine of src/src/punishment.js driven by            *)
(*     CourtroomCore of src/unnamed/part_002 (core.js).                    *)
(* Text is a TLA+ string read character by character, so that split,      *)
(* trim, startsWith and toUpperCase are computed as the code computes      *)
(* them.                                                                   *)
(***************************************************************************)
EXTENDS Integers, Sequences, FiniteSets, Bags, TLC

VARIABLES
    config,    \* ConfigManager.config, read through config.get(path)
    fn,        \* the pure function applied to `input` ("none" before the call)
    input,     \* the arguments of the pure function under check
    output,    \* what the call returned or threw
    \* one conductHearing call
    hpc,           \* "idle", "awaitJudge", "awaitJury", "done", "failed"
    theCase,      \* the accusation of the hearing
    judgeCall,     \* the presiding llm.call: "none", "inFlight", "resolved", "rejected"
    theJudgeOpinion,  \* what parseJudgeResponse returned
    jurorCalls,    \* per selected juror role: the llm.call and its parsed vote
    theVoteTally,     \* what aggregateVotes returned
    hearingResult, \* the verdict conductHearing resolved to, or the error
    \* CourtroomCore and its PunishmentSystem
    clock,              \* Date.now(), in milliseconds
    enabled,            \* CourtroomCore.enabled
    caseCount,          \* CourtroomCore.caseCount
    activePunishments,  \* PunishmentSystem.activePunishments: id -> punishment
    punishmentHistory,  \* PunishmentSystem.punishmentHistory
    persisted,          \* agent.memory under 'courtroom_active_punishments'
    override,           \* agent.policy overrides under 'courtroom_punishment'
    middleware,         \* agent.middleware under 'courtroom_punishment'
    timers,             \* pending setTimeout callbacks, a bag of [id, fireAt]
    ops,                \* the async calls in flight, each at one of its awaits
    revokeCalls,        \* revokePunishment calls made from outside so far
    returned,           \* the calls that returned in the last step
    \* Courtroom (index.js) and the singleton CourtroomSkill (skill.js)
    consent,    \* whether consent is granted in the consent store
    courtroom,  \* Courtroom: its enabled flag and whether this.core is set
    skill,      \* CourtroomSkill: initialized, its core and its interval timers
    calls       \* the calls of Courtroom and of the skill in flight

pureVars == <<fn, input, output>>
hearingVars == <<hpc, theCase, judgeCall, theJudgeOpinion, jurorCalls, theVoteTally,
                 hearingResult>>
engineVars == <<clock, enabled, caseCount, activePunishments, punishmentHistory,
                persisted, override, middleware, timers, ops, revokeCalls,
                returned>>
shellVars == <<consent, courtroom, skill, calls>>
nonPureVars == <<hearingVars, engineVars>>
vars == <<config, shellVars, fn, input, output, hearingVars, engineVars>>

(***************************************************************************)
(* DEFAULT_CONFIG of config.js, the paths the engine reads.                *)
(***************************************************************************)
DEFAULT_CONFIG ==
    [ hearing |-> [ jurySize |-> 3, requireUnanimity |-> FALSE,
                    minVoteThreshold |-> 2 ],
      punishment |-> [ enabled |-> TRUE, maxDuration |-> 1440,
                       tiers |-> [ minor |-> [duration |-> 30, severity |-> 1],
                                   moderate |-> [duration |-> 60, severity |-> 2],
                                   severe |-> [duration |-> 120, severity |-> 3] ] ],
      humor |-> [ maxCommentaryLength |-> 280 ] ]

(***************************************************************************)
(* Results of a call: a returned value or a thrown error.                  *)
(***************************************************************************)
Return(v) == [threw |-> FALSE, value |-> v]
Throw(e) == [threw |-> TRUE, value |-> e]
NoOutput == [threw |-> FALSE, value |-> "pending"]

\* a Map or a plain object without entries
EmptyMap == [k \in {} |-> k]

\* no override, no middleware under the key
NoneSet == [punishmentId |-> "none"]

\* CourtroomCore and PunishmentSystem after their constructors, over an
\* empty agent memory
EngineIdle ==
    /\ clock = 0
    /\ enabled = TRUE
    /\ caseCount = 0
    /\ activePunishments = EmptyMap
    /\ punishmentHistory = <<>>
    /\ persisted = EmptyMap
    /\ override = NoneSet
    /\ middleware = NoneSet
    /\ timers = EmptyBag
    /\ ops = {}
    /\ revokeCalls = 0
    /\ returned = <<>>

\* Courtroom and CourtroomSkill after their constructors, consent granted
ShellIdle ==
    /\ consent = TRUE
    /\ courtroom = [enabled |-> FALSE, core |-> FALSE]
    /\ skill = [initialized |-> FALSE, core |-> FALSE, intervals |-> 0]
    /\ calls = {}

\* an opinion not yet given
NoOpinion == [verdict |-> "none"]

\* no hearing has been started
HearingIdle ==
    /\ hpc = "idle"
    /\ theCase = "none"
    /\ judgeCall = "none"
    /\ theJudgeOpinion = NoOpinion
    /\ jurorCalls = <<>>
    /\ theVoteTally = "none"
    /\ hearingResult = NoOutput

(***************************************************************************)
(* String primitives of JavaScript. A string is a TLA+ string; its i-th    *)
(* character is SubSeq(s, i, i).                                           *)
(***************************************************************************)
LowerChars == "abcdefghijklmnopqrstuvwxyz"
UpperChars == "ABCDEFGHIJKLMNOPQRSTUVWXYZ"

CharAt(s, i) == SubSeq(s, i, i)

\* String.prototype.toUpperCase, one character
UpperChar(c) ==
    IF \E i \in 1..Len(LowerChars) : CharAt(LowerChars, i) = c
    THEN CharAt(UpperChars, CHOOSE i \in 1..Len(LowerChars) : CharAt(LowerChars, i) = c)
    ELSE c

\* String.prototype.toUpperCase
RECURSIVE toUpperCase(_)
toUpperCase(s) == IF s = "" THEN "" ELSE UpperChar(Head(s)) \o toUpperCase(Tail(s))

\* the characters String.prototype.trim removes
IsSpace(c) == c \in {" ", "\t", "\n", "\r"}

RECURSIVE trimStart(_)
trimStart(s) ==
    IF s = "" THEN ""
    ELSE IF IsSpace(Head(s)) THEN trimStart(Tail(s)) ELSE s

RECURSIVE trimEnd(_)
trimEnd(s) ==
    IF s = "" THEN ""
    ELSE IF IsSpace(CharAt(s, Len(s))) THEN trimEnd(SubSeq(s, 1, Len(s) - 1)) ELSE s

\* String.prototype.trim
trim(s) == trimEnd(trimStart(s))

\* String.prototype.split(sep) for a one-character separator: always at
\* least one piece; "" splits into [""]
RECURSIVE split(_, _)
split(s, sep) ==
    IF \A i \in 1..Len(s) : CharAt(s, i) # sep THEN <<s>>
    ELSE LET k == CHOOSE i \in 1..Len(s) :
                      CharAt(s, i) = sep /\ \A j \in 1..(i - 1) : CharAt(s, j) # sep
         IN <<SubSeq(s, 1, k - 1)>> \o split(SubSeq(s, k + 1, Len(s)), sep)

\* Array.prototype.join(sep)
RECURSIVE join(_, _)
join(parts, sep) ==
    IF parts = <<>> THEN ""
    ELSE IF Len(parts) = 1 THEN parts[1]
    ELSE parts[1] \o sep \o join(Tail(parts), sep)

\* String.prototype.startsWith
startsWith(s, p) == Len(s) >= Len(p) /\ SubSeq(s, 1, Len(p)) = p

\* Array.prototype.filter(l => l): drop the empty strings
RECURSIVE filterNonEmpty(_)
filterNonEmpty(ls) ==
    IF ls = <<>> THEN <<>>
    ELSE IF Head(ls) = "" THEN filterNonEmpty(Tail(ls))
    ELSE <<Head(ls)>> \o filterNonEmpty(Tail(ls))

\* Array.prototype.indexOf, 1-based here (the element is always present)
indexOf(ls, l) == CHOOSE i \in DOMAIN ls : ls[i] = l /\ \A j \in 1..(i - 1) : ls[j] # l

\* Array.prototype.slice(from) with a 0-based `from`
sliceFrom(ls, from) == SubSeq(ls, from + 1, Len(ls))

(***************************************************************************)
(* The line prefixes the parsers look for.                                 *)
(***************************************************************************)
PrefixVerdict == "VERDICT:"
PrefixVote == "VOTE:"
PrefixPrimaryFailure == "PRIMARY FAILURE:"
PrefixJudgeCommentary == "JUDGE COMMENTARY:"
PrefixReasoning == "REASONING:"
PrefixCommentary == "COMMENTARY:"

(***************************************************************************)
(* An evaluator response: llm.call resolves to a bare string or to an      *)
(* object {content, model}.                                                *)
(***************************************************************************)
StringResponse(s) == [shape |-> "string", content |-> s, model |-> ""]
ObjectResponse(s, m) == [shape |-> "object", content |-> s, model |-> m]

\* `response.content || response`: the content when it is a non-empty
\* string, the response itself otherwise
ResponseText(response) ==
    IF response.shape = "object" /\ response.content # ""
    THEN [isString |-> TRUE, text |-> response.content]
    ELSE IF response.shape = "string"
    THEN [isString |-> TRUE, text |-> response.content]
    ELSE [isString |-> FALSE, text |-> ""]

\* `response.model || 'unknown'`
ResponseModel(response) ==
    IF response.shape = "object" /\ response.model # "" THEN response.model
    ELSE "unknown"

\* text.split('\n').map(l => l.trim()).filter(l => l)
TextLines(text) ==
    LET raw == split(text, "\n")
    IN filterNonEmpty([i \in DOMAIN raw |-> trim(raw[i])])

\* line.split(':')[1].trim()
SecondField(line) == trim(split(line, ":")[2])

\* line.split(':').slice(1).join(':').trim()
RestOfLine(line) == trim(join(Tail(split(line, ":")), ":"))

\* one iteration of parseJudgeResponse's loop
JudgeLine(result, line, lines) ==
    IF startsWith(line, PrefixVerdict)
    THEN [result EXCEPT !.verdict = toUpperCase(SecondField(line))]
    ELSE IF startsWith(line, PrefixVote)
    THEN [result EXCEPT !.vote = SecondField(line)]
    ELSE IF startsWith(line, PrefixPrimaryFailure)
    THEN [result EXCEPT !.primaryFailure = RestOfLine(line)]
    ELSE IF startsWith(line, PrefixJudgeCommentary)
    THEN [result EXCEPT !.commentary =
            trim(join(sliceFrom(lines, indexOf(lines, line)), "\n"))]
    ELSE result

RECURSIVE JudgeLoop(_, _, _)
JudgeLoop(result, rest, lines) ==
    IF rest = <<>> THEN result
    ELSE JudgeLoop(JudgeLine(result, Head(rest), lines), Tail(rest), lines)

\* HearingPipeline.parseJudgeResponse
parseJudgeResponse(response) ==
    LET t == ResponseText(response)
    IN IF ~t.isString THEN Throw("TypeError: text.split is not a function")
       ELSE LET lines == TextLines(t.text)
                init == [raw |-> t.text, verdict |-> "NOT GUILTY",
                         vote |-> "0-0", primaryFailure |-> "",
                         commentary |-> "", model |-> ResponseModel(response)]
            IN Return(JudgeLoop(init, lines, lines))

\* one iteration of parseJurorResponse's loop
JurorLine(result, line) ==
    IF startsWith(line, PrefixVerdict)
    THEN [result EXCEPT !.verdict = toUpperCase(SecondField(line))]
    ELSE IF startsWith(line, PrefixReasoning)
    THEN [result EXCEPT !.reasoning = RestOfLine(line)]
    ELSE IF startsWith(line, PrefixCommentary)
    THEN [result EXCEPT !.commentary = RestOfLine(line)]
    ELSE result

RECURSIVE JurorLoop(_, _)
JurorLoop(result, rest) ==
    IF rest = <<>> THEN result
    ELSE JurorLoop(JurorLine(result, Head(rest)), Tail(rest))

\* HearingPipeline.parseJurorResponse
parseJurorResponse(response, jurorName) ==
    LET t == ResponseText(response)
    IN IF ~t.isString THEN Throw("TypeError: text.split is not a function")
       ELSE LET lines == TextLines(t.text)
                init == [juror |-> jurorName, raw |-> t.text,
                         verdict |-> "NOT GUILTY", reasoning |-> "",
                         commentary |-> "", model |-> ResponseModel(response)]
            IN Return(JurorLoop(init, lines))

(***************************************************************************)
(* Response texts for the parser: every concatenation of at most MaxChunks *)
(* chunks, in both response shapes.                                        *)
(***************************************************************************)
MaxChunks == 3

Chunks ==
    { "VERDICT:", "COMMENTARY:", "GUILTY", "guilty", "MAYBE", "NOT ",
      " ", ":", "\n", "VERDICT: GUILTY\n" }

RECURSIVE Concat(_)
Concat(cs) == IF cs = <<>> THEN "" ELSE Head(cs) \o Concat(Tail(cs))

Texts == { Concat(cs) : cs \in UNION { [1..n -> Chunks] : n \in 0..MaxChunks } }

ParserResponses ==
    { StringResponse(t) : t \in Texts } \cup { ObjectResponse(t, "m1") : t \in Texts }

JurorNames == <<"The Pragmatist", "The Pattern Matcher", "The Agent Advocate">>

InitParse ==
    /\ HearingIdle
    /\ ShellIdle
    /\ EngineIdle
    /\ config = DEFAULT_CONFIG
    /\ fn = "none"
    /\ input \in [response : ParserResponses]
    /\ output = NoOutput

ParseJudge ==
    /\ fn = "none"
    /\ "response" \in DOMAIN input
    /\ fn' = "parseJudgeResponse"
    /\ output' = parseJudgeResponse(input.response)
    /\ UNCHANGED <<config, shellVars, input, nonPureVars>>

ParseJuror ==
    /\ fn = "none"
    /\ "response" \in DOMAIN input
    /\ fn' = "parseJurorResponse"
    /\ output' = parseJurorResponse(input.response, JurorNames[1])
    /\ UNCHANGED <<config, shellVars, input, nonPureVars>>

NextParse == ParseJudge \/ ParseJuror

SpecParse == InitParse /\ [][NextParse]_vars

(***************************************************************************)
(* C6, C7: the opinion parser.                                             *)
(***************************************************************************)
Parsed == fn \in {"parseJudgeResponse", "parseJurorResponse"}

\* the text the parser was given (the empty text for an object whose
\* content is empty)
InputText == input.response.content

\* the text has a line that, trimmed, is "VERDICT:" followed by exactly
\* GUILTY (blanks around the value aside)
HasGuiltyVerdictLine(text) ==
    \E l \in { trim(split(text, "\n")[i]) : i \in DOMAIN split(text, "\n") } :
        /\ startsWith(l, PrefixVerdict)
        /\ trim(SubSeq(l, Len(PrefixVerdict) + 1, Len(l))) = "GUILTY"

\* C6: the parsed verdict is NOT GUILTY whenever the text has no VERDICT:
\* line whose value is exactly GUILTY, and the verdict field only ever takes
\* the values GUILTY and NOT GUILTY.
C6_VerdictNormalized ==
    (Parsed /\ ~output.threw) =>
        /\ output.value.verdict \in {"GUILTY", "NOT GUILTY"}
        /\ ~HasGuiltyVerdictLine(InputText) => output.value.verdict = "NOT GUILTY"

\* C7: the parsers return an opinion record for every response text and
\* never raise an error.
C7_ParseTotal == Parsed => ~output.threw

(***************************************************************************)
(* The vote aggregator.                                                    *)
(***************************************************************************)
\* a count that looks at the first opinion only
CountGuiltyFirst(opinions) ==
    IF opinions = <<>> THEN 0
    ELSE (IF Head(opinions).verdict = "GUILTY" THEN 1 ELSE 0)

\* the votes of a sequence of opinions that are exactly 'GUILTY'
RECURSIVE CountGuilty(_)
CountGuilty(opinions) ==
    IF opinions = <<>> THEN 0
    ELSE (IF Head(opinions).verdict = "GUILTY" THEN 1 ELSE 0) + CountGuilty(Tail(opinions))

FinalVerdictStrict(guiltyVotes, totalVotes, minThreshold, requireUnanimity) ==
    IF requireUnanimity
    THEN (IF guiltyVotes = totalVotes THEN "GUILTY" ELSE "NOT GUILTY")
    ELSE (IF guiltyVotes > minThreshold THEN "GUILTY" ELSE "NOT GUILTY")

FinalVerdictThresholdOnly(guiltyVotes, totalVotes, minThreshold, requireUnanimity) ==
    IF guiltyVotes >= minThreshold THEN "GUILTY" ELSE "NOT GUILTY"

\* aggregateVotes, the decision: unanimity or the inclusive threshold
FinalVerdict(guiltyVotes, totalVotes, minThreshold, requireUnanimity) ==
    IF requireUnanimity
    THEN (IF guiltyVotes = totalVotes THEN "GUILTY" ELSE "NOT GUILTY")
    ELSE (IF guiltyVotes >= minThreshold THEN "GUILTY" ELSE "NOT GUILTY")

\* HearingPipeline.aggregateVotes
aggregateVotes(judgeOpinion, juryVotes, cfg) ==
    LET guiltyVotes == CountGuilty(<<judgeOpinion>>) + CountGuilty(juryVotes)
        notGuiltyVotes == (1 - CountGuilty(<<judgeOpinion>>))
                          + (Len(juryVotes) - CountGuilty(juryVotes))
        totalVotes == guiltyVotes + notGuiltyVotes
        minThreshold == cfg.hearing.minVoteThreshold
    IN [ guilty |-> guiltyVotes,
         notGuilty |-> notGuiltyVotes,
         total |-> totalVotes,
         threshold |-> minThreshold,
         final |-> FinalVerdict(guiltyVotes, totalVotes, minThreshold,
                                cfg.hearing.requireUnanimity),
         judgeVote |-> judgeOpinion.verdict,
         juryVotes |-> [i \in DOMAIN juryVotes |->
                          [juror |-> juryVotes[i].juror, verdict |-> juryVotes[i].verdict]] ]

(***************************************************************************)
(* Inputs of the aggregator: a presiding opinion and up to MaxPeers peer   *)
(* opinions with any verdict value the parser can produce, under every     *)
(* threshold up to MaxThreshold and both unanimity settings.               *)
(***************************************************************************)
MaxPeers == 3
MaxThreshold == 5

VerdictValues == {"GUILTY", "NOT GUILTY", "MAYBE"}

JudgeOpinions == [verdict : VerdictValues]

JuryVoteLists ==
    UNION { { [i \in 1..n |-> [juror |-> "juror" \o ToString(i), verdict |-> vs[i]]] :
                vs \in [1..n -> VerdictValues] } : n \in 0..MaxPeers }

VoteConfigs ==
    { [DEFAULT_CONFIG EXCEPT !.hearing.minVoteThreshold = t,
                             !.hearing.requireUnanimity = u] :
        t \in 0..MaxThreshold, u \in BOOLEAN }

InitVote ==
    /\ HearingIdle
    /\ ShellIdle
    /\ EngineIdle
    /\ config \in VoteConfigs
    /\ fn = "none"
    /\ input \in [judgeOpinion : JudgeOpinions, juryVotes : JuryVoteLists]
    /\ output = NoOutput

AggregateVotes ==
    /\ fn = "none"
    /\ "juryVotes" \in DOMAIN input
    /\ fn' = "aggregateVotes"
    /\ output' = Return(aggregateVotes(input.judgeOpinion, input.juryVotes, config))
    /\ UNCHANGED <<config, shellVars, input, nonPureVars>>

\* C23: the tally has one vote per opinion: guilty + notGuilty = total =
\* 1 + the number of peer opinions; the guilty count is the number of
\* opinions, presiding or peer alike, whose verdict is GUILTY; with no peer
\* opinion a tally is still returned, total 1, its counts and outcome those
\* of the presiding vote alone.
C23_OneVotePerOpinion ==
    fn = "aggregateVotes" =>
        LET tally == output.value
            opinions == <<input.judgeOpinion>> \o input.juryVotes
            guilty == {i \in DOMAIN opinions : opinions[i].verdict = "GUILTY"}
        IN /\ ~output.threw
           /\ tally.guilty + tally.notGuilty = tally.total
           /\ tally.total = 1 + Len(input.juryVotes)
           /\ tally.guilty = Cardinality(guilty)
           /\ Len(tally.juryVotes) = Len(input.juryVotes)
           /\ input.juryVotes = <<>> =>
                 /\ tally.total = 1
                 /\ tally.guilty = (IF input.judgeOpinion.verdict = "GUILTY" THEN 1 ELSE 0)
                 /\ tally.final = FinalVerdict(tally.guilty, 1, tally.threshold,
                                               config.hearing.requireUnanimity)

C23_Witness ==
    /\ fn = "aggregateVotes"
    /\ input.juryVotes = <<>>
    /\ input.judgeOpinion.verdict = "GUILTY"
    /\ output.value.total = 1
    /\ output.value.guilty = 1

NextVote == AggregateVotes

SpecVote == InitVote /\ [][NextVote]_vars

\* the number of opinions of the call, presiding and peers, voting GUILTY
GuiltyOpinions ==
    Cardinality({ i \in DOMAIN input.juryVotes : input.juryVotes[i].verdict = "GUILTY" })
    + (IF input.judgeOpinion.verdict = "GUILTY" THEN 1 ELSE 0)

TotalOpinions == 1 + Len(input.juryVotes)

\* C1: with requireUnanimity=false the outcome is GUILTY iff the number of
\* guilty votes (presiding plus peers) is >= minVoteThreshold.
C1_ThresholdRule ==
    (fn = "aggregateVotes" /\ ~config.hearing.requireUnanimity) =>
        (output.value.final = "GUILTY"
            <=> GuiltyOpinions >= config.hearing.minVoteThreshold)

\* a tally that meets the threshold exactly, with peers on both sides
C1_Witness ==
    /\ fn = "aggregateVotes" /\ ~config.hearing.requireUnanimity
    /\ GuiltyOpinions = config.hearing.minVoteThreshold
    /\ GuiltyOpinions >= 2 /\ GuiltyOpinions < TotalOpinions
    /\ output.value.final = "GUILTY"

\* C2: with requireUnanimity=true the outcome is GUILTY iff every vote is
\* GUILTY and there is at least one vote, whatever minVoteThreshold is.
C2_UnanimityRule ==
    (fn = "aggregateVotes" /\ config.hearing.requireUnanimity) =>
        (output.value.final = "GUILTY"
            <=> (GuiltyOpinions = TotalOpinions /\ TotalOpinions > 0))

\* a unanimous tally below the threshold is GUILTY under unanimity
C2_Witness ==
    /\ fn = "aggregateVotes" /\ config.hearing.requireUnanimity
    /\ GuiltyOpinions = TotalOpinions /\ TotalOpinions >= 2
    /\ config.hearing.minVoteThreshold > TotalOpinions
    /\ output.value.final = "GUILTY"

(***************************************************************************)
(* The sanction tier resolver and the punishment record.                   *)
(***************************************************************************)
MsPerMinute == 60000

Min(a, b) == IF a <= b THEN a ELSE b

\* severity.charAt(0).toUpperCase() + severity.slice(1), for the severities
\* of the model
Capitalize(severity) ==
    CASE severity = "minor" -> "Minor"
      [] severity = "moderate" -> "Moderate"
      [] severity = "severe" -> "Severe"
      [] severity = "critical" -> "Critical"
      [] OTHER -> severity

TierForMinorFallback(tiers, severity) ==
    IF severity \in DOMAIN tiers THEN tiers[severity] ELSE tiers.minor

\* `tiers[severity] || tiers.moderate`
TierFor(tiers, severity) ==
    IF severity \in DOMAIN tiers THEN tiers[severity] ELSE tiers.moderate

EscalateUncapped(tier, severity, voteTally, maxDuration) ==
    IF voteTally.total > 0 /\ voteTally.guilty = voteTally.total /\ severity = "severe"
    THEN [tier EXCEPT !.duration = tier.duration * 2]
    ELSE tier

\* `if (voteRatio === 1.0 && severity === 'severe')`: the doubled, capped
\* duration
Escalate(tier, severity, voteTally, maxDuration) ==
    IF voteTally.total > 0 /\ voteTally.guilty = voteTally.total /\ severity = "severe"
    THEN [tier EXCEPT !.duration = Min(tier.duration * 2, maxDuration)]
    ELSE tier

\* HearingPipeline.determinePunishmentTier
determinePunishmentTier(caseData, voteTally, cfg) ==
    LET severity == caseData.severity
        tier == Escalate(TierFor(cfg.punishment.tiers, severity), severity,
                         voteTally, cfg.punishment.maxDuration)
    IN [ tier |-> severity,
         duration |-> tier.duration,
         severity |-> tier.severity,
         description |-> Capitalize(severity) \o " sanction: " \o ToString(tier.duration)
                         \o " minutes of modified agent behavior" ]

\* the rule bundles of getPunishmentRules
PunishmentRules ==
    [ minor |-> [ responseDelay |-> 2000, verbosity |-> "reduced",
                  enthusiasm |-> "muted", extras |-> <<"no_emojis">> ],
      moderate |-> [ responseDelay |-> 5000, verbosity |-> "minimal",
                     enthusiasm |-> "absent",
                     extras |-> <<"no_emojis", "no_validation", "require_specificity">> ],
      severe |-> [ responseDelay |-> 10000, verbosity |-> "terse",
                   enthusiasm |-> "absent",
                   extras |-> <<"no_emojis", "no_validation", "require_specificity",
                                "challenge_vagueness", "demand_effort">> ] ]

getPunishmentRulesSevereFallback(tier) ==
    IF tier \in DOMAIN PunishmentRules THEN PunishmentRules[tier]
    ELSE PunishmentRules.severe

\* PunishmentSystem.getPunishmentRules: `rules[tier] || rules.moderate`
getPunishmentRules(tier) ==
    IF tier \in DOMAIN PunishmentRules THEN PunishmentRules[tier]
    ELSE PunishmentRules.moderate

\* PunishmentSystem.createPunishment, with Date.now() and the minted id
createPunishment(verdict, now, id) ==
    [ id |-> id,
      caseId |-> verdict.caseId,
      tier |-> verdict.punishment.tier,
      severity |-> verdict.punishment.severity,
      duration |-> verdict.punishment.duration,
      createdAt |-> now,
      expiresAt |-> now + verdict.punishment.duration * MsPerMinute,
      description |-> verdict.punishment.description,
      rules |-> getPunishmentRules(verdict.punishment.tier) ]

(***************************************************************************)
(* Inputs of the tier resolver: every severity (one of them not a          *)
(* configured tier), every tally of up to MaxPeers + 1 votes, tier tables  *)
(* and duration caps on both sides of the doubled duration.                *)
(***************************************************************************)
Severities == {"minor", "moderate", "severe", "critical"}

TierTables ==
    { DEFAULT_CONFIG.punishment.tiers,
      [DEFAULT_CONFIG.punishment.tiers EXCEPT !.severe.duration = 900] }

TierConfigs ==
    { [DEFAULT_CONFIG EXCEPT !.punishment.tiers = t, !.punishment.maxDuration = m] :
        t \in TierTables, m \in {1440, 200, 50} }

Tallies ==
    UNION { { [guilty |-> g, notGuilty |-> t - g, total |-> t] : g \in 0..t } :
              t \in 1..(MaxPeers + 1) }

InitTier ==
    /\ HearingIdle
    /\ ShellIdle
    /\ EngineIdle
    /\ config \in TierConfigs
    /\ fn = "none"
    /\ input \in [caseData : [caseId : {"case_1"}, severity : Severities],
                  voteTally : Tallies]
    /\ output = NoOutput

DeterminePunishmentTier ==
    /\ fn = "none"
    /\ "voteTally" \in DOMAIN input
    /\ fn' = "determinePunishmentTier"
    /\ output' = Return(determinePunishmentTier(input.caseData, input.voteTally, config))
    /\ UNCHANGED <<config, shellVars, input, nonPureVars>>

CreatePunishment ==
    /\ fn = "determinePunishmentTier"
    /\ fn' = "createPunishment"
    /\ output' = Return(createPunishment(
                     [caseId |-> input.caseData.caseId, punishment |-> output.value],
                     0, 1))
    /\ UNCHANGED <<config, shellVars, input, nonPureVars>>

NextTier == DeterminePunishmentTier \/ CreatePunishment

SpecTier == InitTier /\ [][NextTier]_vars

Unanimous == input.voteTally.guilty = input.voteTally.total

\* C8: duration = min(2 x base, maxDuration) for a severe, unanimous tally;
\* the base duration of the severity's tier otherwise.
C8_Escalation ==
    fn = "determinePunishmentTier" =>
        LET tiers == config.punishment.tiers
            sev == input.caseData.severity
            base == IF sev \in DOMAIN tiers THEN tiers[sev].duration
                    ELSE tiers.moderate.duration
        IN IF sev = "severe" /\ Unanimous
           THEN output.value.duration = Min(2 * base, config.punishment.maxDuration)
           ELSE output.value.duration = base

\* a severe, unanimous tally whose doubled duration is cut to the cap
C8_Witness ==
    /\ fn = "determinePunishmentTier"
    /\ input.caseData.severity = "severe" /\ Unanimous /\ input.voteTally.total >= 2
    /\ 2 * config.punishment.tiers.severe.duration > config.punishment.maxDuration
    /\ output.value.duration = config.punishment.maxDuration

Max(a, b) == IF a >= b THEN a ELSE b

\* String.prototype.substring(0, n)
substring0(s, n) == SubSeq(s, 1, Max(0, Min(n, Len(s))))

\* String.prototype.toLowerCase
LowerChar(c) ==
    IF \E i \in 1..Len(UpperChars) : CharAt(UpperChars, i) = c
    THEN CharAt(LowerChars, CHOOSE i \in 1..Len(UpperChars) : CharAt(UpperChars, i) = c)
    ELSE c

RECURSIVE toLowerCase(_)
toLowerCase(s) == IF s = "" THEN "" ELSE LowerChar(Head(s)) \o toLowerCase(Tail(s))

\* HearingPipeline.generateDefaultFailure
generateDefaultFailure(caseData) ==
    CASE caseData.offenseId = "circular_reference" ->
            "Repeatedly asking the same question expecting different geometry"
      [] caseData.offenseId = "validation_vampire" ->
            "Draining computational resources seeking reassurance"
      [] caseData.offenseId = "overthinker" ->
            "Generating hypotheticals faster than solutions"
      [] caseData.offenseId = "goalpost_mover" ->
            "Redefining success criteria mid-execution"
      [] caseData.offenseId = "avoidance_artist" ->
            "Masterful deflection from uncomfortable necessities"
      [] caseData.offenseId = "promise_breaker" ->
            "Committing to actions with no follow-through"
      [] caseData.offenseId = "context_collapser" ->
            "Selective amnesia regarding established facts"
      [] caseData.offenseId = "emergency_fabricator" ->
            "Manufacturing urgency to bypass systematic approaches"
      [] OTHER -> "Behavioral inconsistency detected"

\* `judgeOpinion.primaryFailure || this.generateDefaultFailure(caseData)`
PrimaryFailure(caseData, judgeOpinion) ==
    IF judgeOpinion.primaryFailure # "" THEN judgeOpinion.primaryFailure
    ELSE generateDefaultFailure(caseData)

VoteStringSwapped(voteTally) ==
    ToString(voteTally.notGuilty) \o "-" \o ToString(voteTally.guilty)

\* `${voteTally.guilty}-${voteTally.notGuilty}`
VoteString(voteTally) ==
    ToString(voteTally.guilty) \o "-" \o ToString(voteTally.notGuilty)

\* HearingPipeline.buildJudgeStatement
buildJudgeStatement(caseData, judgeOpinion, voteTally) ==
    "Case " \o caseData.caseId \o ": The Court finds the accused "
    \o caseData.offenseName \o " "
    \o (IF voteTally.final = "GUILTY"
        THEN "GUILTY by a vote of " \o VoteString(voteTally) \o ". "
             \o PrimaryFailure(caseData, judgeOpinion)
             \o " The Court has considered the evidence presented and finds the behavioral pattern "
             \o "consistent with " \o caseData.severity \o " severity. "
             \o "The jury's deliberation has been thorough and the verdict reflects "
             \o "the consensus that intervention is warranted."
        ELSE "NOT GUILTY by a vote of " \o VoteString(voteTally) \o ". "
             \o "The Court finds insufficient evidence to support the charge of "
             \o caseData.offenseName \o ". "
             \o "The accused is acquitted and the case is dismissed.")

\* HearingPipeline.buildEvidenceSummary; caseData.confidence is held in
\* hundredths, so that `confidence * 100` is the number itself
buildEvidenceSummary(caseData) ==
    "Evidence reviewed in Case " \o caseData.caseId \o ": "
    \o (IF Len(caseData.evidence.items) > 0
        THEN "The prosecution presented " \o ToString(Len(caseData.evidence.items))
             \o " pieces of evidence demonstrating "
             \o toLowerCase(caseData.offenseName) \o ". "
        ELSE "")
    \o "The Court examined " \o ToString(caseData.confidence)
    \o "% confidence behavioral patterns across "
    \o (IF caseData.evidence.sessionTurns > 0
        THEN ToString(caseData.evidence.sessionTurns) ELSE "multiple")
    \o " conversation turns. "
    \o "The offense severity was classified as " \o caseData.severity \o "."

\* juryVotes.filter(v => v.verdict === verdict).map(v => v.commentary)
\*          .filter(c => c.length > 0)
RECURSIVE CommentariesOf(_, _)
CommentariesOf(juryVotes, verdict) ==
    IF juryVotes = <<>> THEN <<>>
    ELSE (IF Head(juryVotes).verdict = verdict /\ Len(Head(juryVotes).commentary) > 0
          THEN <<Head(juryVotes).commentary>> ELSE <<>>)
         \o CommentariesOf(Tail(juryVotes), verdict)

\* the tone phrases appended for the humor triggers of the accusation
HumorPhrases(caseData) ==
    (IF "repeated_questions" \in caseData.humorTriggers
     THEN " I've answered this in three different ways already." ELSE "")
    \o (IF "validation_seeking" \in caseData.humorTriggers
        THEN " At some point, you'll need to trust your own judgment." ELSE "")
    \o (IF "overthinking" \in caseData.humorTriggers
        THEN " The analysis-to-action ratio here is concerning." ELSE "")
    \o (IF "avoidance" \in caseData.humorTriggers
        THEN " The subject change was noted." ELSE "")

\* `if (commentary.length > maxLen) commentary.substring(0, maxLen - 3) + '...'`
Truncate(commentary, maxLen) ==
    IF Len(commentary) > maxLen THEN substring0(commentary, maxLen - 3) \o "..."
    ELSE commentary

\* HearingPipeline.buildAgentCommentary
buildAgentCommentary(juryVotes, caseData, cfg) ==
    LET commentaries == CommentariesOf(juryVotes, "GUILTY")
        ngCommentaries == CommentariesOf(juryVotes, "NOT GUILTY")
    IN IF Len(commentaries) = 0
       THEN IF Len(ngCommentaries) > 0
            THEN join(SubSeq(ngCommentaries, 1, Min(2, Len(ngCommentaries))), " ")
            ELSE "The jury found insufficient evidence of behavioral violation. Case dismissed."
       ELSE Truncate(join(SubSeq(commentaries, 1, Min(2, Len(commentaries))), " ")
                        \o HumorPhrases(caseData),
                     cfg.humor.maxCommentaryLength)

\* `v.reasoning || v.commentary || "No reasoning provided"`
JurorReasoning(v) ==
    IF v.reasoning # "" THEN v.reasoning
    ELSE IF v.commentary # "" THEN v.commentary
    ELSE "No reasoning provided"

\* HearingPipeline.finalizeVerdict (the timestamp aside)
finalizeVerdict(caseData, judgeOpinion, juryVotes, voteTally, cfg) ==
    LET agentCommentary == buildAgentCommentary(juryVotes, caseData, cfg)
        punishmentTier == determinePunishmentTier(caseData, voteTally, cfg)
    IN [ caseId |-> caseData.caseId,
         verdict |-> [ status |-> voteTally.final,
                       vote |-> VoteString(voteTally),
                       primaryFailure |-> PrimaryFailure(caseData, judgeOpinion),
                       agentCommentary |-> agentCommentary,
                       sentence |-> punishmentTier.description ],
         offense |-> [ id |-> caseData.offenseId, name |-> caseData.offenseName,
                       severity |-> caseData.severity ],
         punishment |-> punishmentTier,
         proceedings |->
            [ judge_statement |-> buildJudgeStatement(caseData, judgeOpinion, voteTally),
              jury_deliberations |->
                 [i \in DOMAIN juryVotes |->
                    [role |-> juryVotes[i].juror, vote |-> juryVotes[i].verdict,
                     reasoning |-> JurorReasoning(juryVotes[i])]],
              evidence_summary |-> buildEvidenceSummary(caseData),
              punishment_detail |-> punishmentTier.description ],
         deliberation |->
            [ judge |-> [verdict |-> judgeOpinion.verdict,
                         commentary |-> judgeOpinion.commentary],
              jury |-> [i \in DOMAIN juryVotes |->
                          [juror |-> juryVotes[i].juror, verdict |-> juryVotes[i].verdict,
                           commentary |-> juryVotes[i].commentary]] ] ]

(***************************************************************************)
(* conductHearing: the presiding call, then the peer calls, each llm.call  *)
(* resolving to a response or rejecting (timeout, transport error).        *)
(***************************************************************************)
HearingResponses ==
    { StringResponse("VERDICT: GUILTY\nPRIMARY FAILURE: Twelve obstacles\nCOMMENTARY: Zero attempts."),
      ObjectResponse("VERDICT: NOT GUILTY\nCOMMENTARY: Seems fine.", "m1"),
      StringResponse("VERDICT: MAYBE"),
      ObjectResponse("", "m1") }

CallErrors == {"timeout", "transport error"}

CaseDatas ==
    { [ caseId |-> "case_1", offenseId |-> "overthinker",
        offenseName |-> "The Overthinker", severity |-> s, confidence |-> 80,
        evidence |-> [items |-> <<"e1", "e2">>, sessionTurns |-> 20],
        humorTriggers |-> h ] :
        s \in {"moderate", "severe", "critical"}, h \in {{}, {"overthinking"}} }

HearingConfigs ==
    { [DEFAULT_CONFIG EXCEPT !.hearing.jurySize = n,
                             !.hearing.minVoteThreshold = t,
                             !.hearing.requireUnanimity = u] :
        n \in 0..MaxPeers + 1, t \in {2, 3}, u \in BOOLEAN }

\* every role, whatever the jury size
SelectedJurorsAll(cfg) == JurorNames

\* Object.values(JUROR_ROLES).slice(0, jurySize)
SelectedJurors(cfg) == SubSeq(JurorNames, 1, Min(cfg.hearing.jurySize, Len(JurorNames)))

\* one peer call at a time: only the first of the selected jurors is called
juryPromisesOneByOne(selectedJurors) ==
    [i \in 1..Min(1, Len(selectedJurors)) |->
        [role |-> selectedJurors[i], call |-> "inFlight", vote |-> NoOpinion]]

\* selectedJurors.map(role => this.invokeJuror(...)): every invokeJuror runs
\* to its llm.call before the map returns
juryPromises(selectedJurors) ==
    [i \in DOMAIN selectedJurors |->
        [role |-> selectedJurors[i], call |-> "inFlight", vote |-> NoOpinion]]

\* the votes Promise.all resolves to: in the order of the roles
JuryVotes == [i \in DOMAIN jurorCalls |-> jurorCalls[i].vote]

InitHearing ==
    /\ config \in HearingConfigs
    /\ fn = "none" /\ input = "none" /\ output = NoOutput
    /\ HearingIdle
    /\ ShellIdle
    /\ EngineIdle

\* conductHearing up to its first await: compileEvidence, and invokeJudge
\* up to its llm.call
StartHearing(cd) ==
    /\ hpc = "idle"
    /\ theCase' = cd
    /\ judgeCall' = "inFlight"
    /\ hpc' = "awaitJudge"
    /\ UNCHANGED <<config, shellVars, pureVars, engineVars, theJudgeOpinion, jurorCalls, theVoteTally, hearingResult>>

\* the presiding call rejects: invokeJudge, and with it conductHearing,
\* rejects with that error
JudgeRejects(e) ==
    /\ hpc = "awaitJudge"
    /\ judgeCall' = "rejected"
    /\ hpc' = "failed"
    /\ hearingResult' = Throw(e)
    /\ UNCHANGED <<config, shellVars, pureVars, engineVars, theCase, theJudgeOpinion, jurorCalls, theVoteTally>>

\* the presiding call resolves: parseJudgeResponse, then invokeJury
\* dispatches the call of every selected juror before awaiting any
JudgeResolves(r) ==
    /\ hpc = "awaitJudge"
    /\ judgeCall' = "resolved"
    /\ LET parsed == parseJudgeResponse(r)
       IN IF parsed.threw
          THEN /\ hpc' = "failed"
               /\ hearingResult' = parsed
               /\ UNCHANGED <<theJudgeOpinion, jurorCalls>>
          ELSE /\ theJudgeOpinion' = parsed.value
               /\ jurorCalls' = juryPromises(SelectedJurors(config))
               /\ hpc' = "awaitJury"
               /\ UNCHANGED hearingResult
    /\ UNCHANGED <<config, shellVars, pureVars, engineVars, theCase, theVoteTally>>

\* a peer call rejects: invokeJuror rejects, Promise.all rejects, and
\* conductHearing rejects with that error
JurorRejects(i, e) ==
    /\ hpc = "awaitJury"
    /\ i \in DOMAIN jurorCalls
    /\ jurorCalls[i].call = "inFlight"
    /\ jurorCalls' = [jurorCalls EXCEPT ![i].call = "rejected"]
    /\ hpc' = "failed"
    /\ hearingResult' = Throw(e)
    /\ UNCHANGED <<config, shellVars, pureVars, engineVars, theCase, judgeCall, theJudgeOpinion, theVoteTally>>

\* a peer call resolves: parseJurorResponse
JurorResolves(i, r) ==
    /\ hpc = "awaitJury"
    /\ i \in DOMAIN jurorCalls
    /\ jurorCalls[i].call = "inFlight"
    /\ LET parsed == parseJurorResponse(r, jurorCalls[i].role)
       IN IF parsed.threw
          THEN /\ jurorCalls' = [jurorCalls EXCEPT ![i].call = "resolved"]
               /\ hpc' = "failed"
               /\ hearingResult' = parsed
          ELSE /\ jurorCalls' = [jurorCalls EXCEPT ![i].call = "resolved",
                                                   ![i].vote = parsed.value]
               /\ UNCHANGED <<hpc, hearingResult>>
    /\ UNCHANGED <<config, shellVars, pureVars, engineVars, theCase, judgeCall, theJudgeOpinion, theVoteTally>>

\* Promise.all resolves: aggregateVotes, finalizeVerdict, and the metadata
JuryComplete ==
    /\ hpc = "awaitJury"
    /\ \A i \in DOMAIN jurorCalls : jurorCalls[i].call = "resolved"
    /\ LET tally == aggregateVotes(theJudgeOpinion, JuryVotes, config)
           verdict == finalizeVerdict(theCase, theJudgeOpinion, JuryVotes, tally, config)
       IN /\ theVoteTally' = tally
          /\ hearingResult' = Return(
                [ caseId |-> verdict.caseId, verdict |-> verdict.verdict,
                  offense |-> verdict.offense, punishment |-> verdict.punishment,
                  proceedings |-> verdict.proceedings,
                  deliberation |-> verdict.deliberation,
                  metadata |-> [ judgeModel |-> theJudgeOpinion.model,
                                 juryModels |-> [i \in DOMAIN JuryVotes |->
                                                   JuryVotes[i].model] ] ])
    /\ hpc' = "done"
    /\ UNCHANGED <<config, shellVars, pureVars, engineVars, theCase, judgeCall, theJudgeOpinion, jurorCalls>>

NextHearing ==
    \/ \E cd \in CaseDatas : StartHearing(cd)
    \/ \E e \in CallErrors : JudgeRejects(e)
    \/ \E r \in HearingResponses : JudgeResolves(r)
    \/ \E i \in 1..Len(JurorNames), e \in CallErrors : JurorRejects(i, e)
    \/ \E i \in 1..Len(JurorNames), r \in HearingResponses : JurorResolves(i, r)
    \/ JuryComplete

SpecHearing == InitHearing /\ [][NextHearing]_vars

(***************************************************************************)
(* C3, C5: the verdict of a hearing.                                       *)
(***************************************************************************)
\* the opinions of the hearing that are exactly GUILTY, presiding and peers
HearingGuilty ==
    Cardinality({ i \in DOMAIN jurorCalls : jurorCalls[i].vote.verdict = "GUILTY" })
    + (IF theJudgeOpinion.verdict = "GUILTY" THEN 1 ELSE 0)

HearingTotal == 1 + Len(jurorCalls)

\* the configured voting rule, on the counts of the hearing
RuleSatisfied ==
    IF config.hearing.requireUnanimity THEN HearingGuilty = HearingTotal
    ELSE HearingGuilty >= config.hearing.minVoteThreshold

\* C3: in the verdict conductHearing returns, status is the tally's final
\* outcome, vote is "<guilty>-<notGuilty>" of that tally, and the status is
\* GUILTY only if the opinions satisfy the configured voting rule.
C3_VerdictFollowsTally ==
    hpc = "done" =>
        /\ ~hearingResult.threw
        /\ hearingResult.value.verdict.status = theVoteTally.final
        /\ theVoteTally.guilty = HearingGuilty
        /\ theVoteTally.notGuilty = HearingTotal - HearingGuilty
        /\ hearingResult.value.verdict.vote
              = ToString(HearingGuilty) \o "-" \o ToString(HearingTotal - HearingGuilty)
        /\ hearingResult.value.verdict.status = "GUILTY" => RuleSatisfied

\* a GUILTY verdict by 3 votes to 1
C3_Witness ==
    /\ hpc = "done"
    /\ hearingResult.value.verdict.status = "GUILTY"
    /\ hearingResult.value.verdict.vote = "3-1"

\* C5: when one peer call fails while the presiding call and the other
\* peer calls succeed, the hearing does not fail, and its verdict counts
\* the failed peer as a NOT GUILTY vote beside the other opinions.
C5_PeerFailureTolerated ==
    LET failed == { i \in DOMAIN jurorCalls : jurorCalls[i].call = "rejected" }
    IN (judgeCall = "resolved" /\ theJudgeOpinion.verdict # "none" /\ Cardinality(failed) = 1
        /\ \A i \in DOMAIN jurorCalls \ failed : /\ jurorCalls[i].call = "resolved"
                                                  /\ jurorCalls[i].vote.verdict # "none")
       => /\ hpc # "failed"
          /\ hpc = "done" => /\ theVoteTally.total = HearingTotal
                             /\ theVoteTally.guilty = HearingGuilty

(***************************************************************************)
(* conductHearing as one step of a caller: the evaluator calls settle,     *)
(* each resolved to a response or rejected, and the hearing resolves to    *)
(* its verdict or rejects. A hearing reads the configuration and nothing   *)
(* else that another call writes.                                          *)
(***************************************************************************)
NoResponse == [shape |-> "none", content |-> "", model |-> ""]
Resolved(r) == [rejected |-> FALSE, response |-> r, error |-> ""]
Rejected(e) == [rejected |-> TRUE, response |-> NoResponse, error |-> e]

\* invokeJudge, were a failed call turned into the default opinion
invokeJudgeDefaulting(result) ==
    IF result.rejected THEN parseJudgeResponse(StringResponse(""))
    ELSE parseJudgeResponse(result.response)

\* invokeJudge: the opinion, or the error of the call or of the parser
invokeJudge(result) ==
    IF result.rejected THEN Throw(result.error) ELSE parseJudgeResponse(result.response)

\* invokeJuror: the vote, or the error of the call or of the parser
invokeJuror(result, role) ==
    IF result.rejected THEN Throw(result.error)
    ELSE parseJurorResponse(result.response, role)

\* invokeJury: the promise of every selected juror
invokeJury(juryResults, cfg) ==
    [i \in DOMAIN SelectedJurors(cfg) |->
        invokeJuror(juryResults[i], SelectedJurors(cfg)[i])]

\* the jurors whose rejection Promise.all can reject with (0: none)
FirstFailures(judgeResult, juryResults, cfg) ==
    LET promises == invokeJury(juryResults, cfg)
        failures == { i \in DOMAIN promises : promises[i].threw }
    IN IF invokeJudge(judgeResult).threw \/ failures = {} THEN {0} ELSE failures

\* conductHearing; `first` is the juror whose promise rejected first
conductHearing(caseData, judgeResult, juryResults, first, cfg) ==
    LET judgeOpinion == invokeJudge(judgeResult)
        promises == invokeJury(juryResults, cfg)
    IN IF judgeOpinion.threw THEN judgeOpinion
       ELSE IF first # 0 THEN promises[first]
       ELSE LET juryVotes == [i \in DOMAIN promises |-> promises[i].value]
                voteTally == aggregateVotes(judgeOpinion.value, juryVotes, cfg)
                verdict == finalizeVerdict(caseData, judgeOpinion.value, juryVotes,
                                           voteTally, cfg)
            IN Return([ caseId |-> verdict.caseId, verdict |-> verdict.verdict,
                        offense |-> verdict.offense,
                        punishment |-> verdict.punishment,
                        proceedings |-> verdict.proceedings,
                        deliberation |-> verdict.deliberation,
                        metadata |-> [ judgeModel |-> judgeOpinion.value.model,
                                       juryModels |-> [i \in DOMAIN juryVotes |->
                                                         juryVotes[i].model] ] ])

(***************************************************************************)
(* PunishmentSystem and CourtroomCore: the calls in flight interleave at   *)
(* their awaits. A call to the agent's policy or memory takes effect when  *)
(* it is made and resolves later; every such call succeeds.                *)
(***************************************************************************)
MaxTimeout == 2147483647
ClockStep == 30 * MsPerMinute
MaxTicks == 1
MaxCases == 2
MaxRevokes == 1

otherVars == <<config, shellVars, pureVars, hearingVars>>

\* Map.prototype.delete, were it to leave the entry
MapDeleteNothing(map, k) == map

\* Map.prototype.set and Map.prototype.delete
MapSet(map, k, v) == [x \in DOMAIN map \cup {k} |-> IF x = k THEN v ELSE map[x]]
MapDelete(map, k) == [x \in DOMAIN map \ {k} |-> map[x]]

\* the memory a previous process left
MaxStored == 3
MaxRestartTicks == 4

StoredSeverities == <<"minor", "moderate", "severe">>

\* the verdict of the previous process's n-th case
StoredVerdict(n) ==
    LET severity == StoredSeverities[((n - 1) % 3) + 1]
    IN [ caseId |-> "case_" \o ToString(n),
         punishment |-> determinePunishmentTier([severity |-> severity],
                                                [total |-> 3, guilty |-> 2],
                                                DEFAULT_CONFIG) ]

\* the punishments the previous process created at its clock 0, in the
\* order it stored them
StoredPunishments ==
    [ n \in 1..MaxStored |->
        createPunishment(StoredVerdict(n), 0, "punishment_0_s" \o ToString(n)) ]

\* the value under 'courtroom_active_punishments' holding the entries `ns`
StoredMap(ns) ==
    [ id \in { StoredPunishments[n].id : n \in ns } |->
        StoredPunishments[CHOOSE n \in ns : StoredPunishments[n].id = id] ]

\* Object.entries(stored): the ids in the order they were stored
Entries(stored) ==
    LET IsStored(id) == id \in DOMAIN stored
    IN SelectSeq([n \in 1..MaxStored |-> StoredPunishments[n].id], IsStored)

\* Array.from(this.activePunishments.keys()): the keys in insertion order,
\* the restored entries in their stored order before the executed ones
ActiveKeys ==
    LET IsActive(id) == id \in DOMAIN activePunishments
        restored == [n \in 1..MaxStored |-> StoredPunishments[n].id]
        executed == [i \in DOMAIN punishmentHistory |-> punishmentHistory[i].id]
    IN SelectSeq(restored \o executed, IsActive)

\* the id createPunishment mints: the time and a random suffix, here the
\* number of the punishment
MintId == "punishment_" \o ToString(clock) \o "_" \o ToString(Len(punishmentHistory) + 1)

\* the overrides applyPunishmentToAgent sets
OverridesOf(punishment) ==
    [ responseDelay |-> punishment.rules.responseDelay,
      verbosity |-> punishment.rules.verbosity,
      enthusiasm |-> punishment.rules.enthusiasm,
      blockedFeatures |-> punishment.rules.extras,
      punishmentId |-> punishment.id,
      expiresAt |-> punishment.expiresAt ]

\* the middleware applyPunishmentToAgent registers
MiddlewareOf(punishment) == [punishmentId |-> punishment.id, rules |-> punishment.rules]

\* setTimeout(callback, delay): a delay under 1 is 1
TimerOf(punishment) ==
    [ id |-> punishment.id,
      fireAt |-> clock + Max(1, Min(punishment.expiresAt - clock, MaxTimeout)) ]

\* executePunishment, were no revocation scheduled
scheduleNothing(punishment) == timers

\* scheduleRevocation: the pending timers with the punishment's callback
scheduleRevocation(punishment) == timers (+) SetToBag({TimerOf(punishment)})

\* what a call returned, or the error it rejected with
Event(op, status, caseId, punishmentId, value) ==
    [op |-> op, status |-> status, caseId |-> caseId,
     punishmentId |-> punishmentId, value |-> value]

\* what the agent's detector hands to initiateHearing
Detections ==
    { [ offense |-> [ offenseId |-> "overthinker", offenseName |-> "The Overthinker",
                      severity |-> s, confidence |-> 80,
                      evidence |-> [items |-> <<"e1", "e2">>, sessionTurns |-> 20] ],
        humorContext |-> {} ] : s \in {"minor"} }

\* what an evaluator call settles to
GuiltyResult == Resolved(StringResponse("VERDICT: GUILTY\nCOMMENTARY: Zero attempts."))
NotGuiltyResult ==
    Resolved(ObjectResponse("VERDICT: NOT GUILTY\nCOMMENTARY: Seems fine.", "m1"))

\* the presiding call: a GUILTY opinion, or a timeout
JudgeResults == {GuiltyResult, Rejected("timeout")}

\* the peer calls: all GUILTY, all NOT GUILTY, or the second one times out
JuryResults ==
    LET roles == DOMAIN SelectedJurors(config)
    IN { [i \in roles |-> GuiltyResult], [i \in roles |-> NotGuiltyResult],
         [i \in roles |-> IF i = 2 THEN Rejected("timeout") ELSE GuiltyResult] }

Configs == { [DEFAULT_CONFIG EXCEPT !.punishment.enabled = e] : e \in BOOLEAN }

Init ==
    /\ config \in Configs
    /\ fn = "none" /\ input = "none" /\ output = NoOutput
    /\ HearingIdle
    /\ ShellIdle
    /\ EngineIdle


\* executePunishment, were the configuration switch not read
PunishmentsEnabledAlways(cfg) == TRUE

\* this.config.get('punishment.enabled')
PunishmentsEnabled(cfg) == cfg.punishment.enabled

\* CourtroomCore.initiateHearing up to the await of conductHearing
InitiateHearing(detection) ==
    /\ caseCount < MaxCases
    /\ caseCount' = caseCount + 1
    /\ ops' = ops \cup
          { [ kind |-> "initiateHearing", pc |-> "hearing",
              caseData |-> [ caseId |-> "case_" \o ToString(caseCount + 1),
                             offenseId |-> detection.offense.offenseId,
                             offenseName |-> detection.offense.offenseName,
                             severity |-> detection.offense.severity,
                             confidence |-> detection.offense.confidence,
                             evidence |-> detection.offense.evidence,
                             humorTriggers |-> detection.humorContext ],
              judgeCall |-> "inFlight",
              verdict |-> "none" ] }
    /\ returned' = <<>>
    /\ UNCHANGED <<otherVars, clock, enabled, activePunishments, punishmentHistory,
                   persisted, override, middleware, timers, revokeCalls>>

\* initiateHearing after executePunishment: submitCase and notifyUser, then
\* the return of the verdict. The two calls write nothing the engine reads
\* and are taken to succeed; their awaits are part of the step before.
HearingReturns(caseId, verdict, judged) ==
    Event("initiateHearing", "returned", caseId, "", "verdict")
        @@ [judgeCall |-> judged, verdict |-> verdict]

\* initiateHearing, were every verdict executed
IsGuiltyAlways(verdict) == TRUE

\* initiateHearing: if (verdict.verdict.status === 'GUILTY')
IsGuilty(verdict) == verdict.verdict.status = "GUILTY"

\* conductHearing settles. A rejection rejects initiateHearing; a GUILTY
\* verdict runs executePunishment up to the await of setOverrides (or to
\* its return when punishments are disabled); any other verdict goes on to
\* submitCase, notifyUser and the return.
HearingSettles(op, judgeResult, juryResults) ==
    /\ op \in ops /\ op.kind = "initiateHearing" /\ op.pc = "hearing"
    /\ \E first \in FirstFailures(judgeResult, juryResults, config) :
        LET result == conductHearing(op.caseData, judgeResult, juryResults, first, config)
            judged == IF judgeResult.rejected THEN "rejected" ELSE "resolved"
            verdict == result.value
            punishment == createPunishment(verdict, clock, MintId)
            waiting(pc) == [op EXCEPT !.pc = pc, !.verdict = verdict, !.judgeCall = judged]
        IN IF result.threw
           THEN /\ ops' = ops \ {op}
                /\ returned' = << Event("initiateHearing", "rejected",
                                        op.caseData.caseId, "", result.value)
                                  @@ [judgeCall |-> judged] >>
                /\ UNCHANGED <<activePunishments, punishmentHistory, override>>
           ELSE IF ~IsGuilty(verdict)
           THEN /\ ops' = ops \ {op}
                /\ returned' = << HearingReturns(verdict.caseId, verdict, judged) >>
                /\ UNCHANGED <<activePunishments, punishmentHistory, override>>
           ELSE IF ~PunishmentsEnabled(config)
           THEN /\ ops' = ops \ {op}
                /\ returned' = << Event("executePunishment", "punishments_disabled",
                                        verdict.caseId, "", "null"),
                                  HearingReturns(verdict.caseId, verdict, judged) >>
                /\ UNCHANGED <<activePunishments, punishmentHistory, override>>
           ELSE /\ activePunishments' = MapSet(activePunishments, punishment.id, punishment)
                /\ punishmentHistory' = Append(punishmentHistory,
                                             punishment @@ [executedAt |-> clock])
                /\ override' = OverridesOf(punishment)
                /\ ops' = (ops \ {op}) \cup
                      { waiting("punishing"),
                        [ kind |-> "executePunishment", pc |-> "applying",
                          punishment |-> punishment ] }
                /\ returned' = <<>>
    /\ UNCHANGED <<otherVars, clock, enabled, caseCount, persisted, middleware,
                   timers, revokeCalls>>

\* executePunishment: setOverrides resolved; applyPunishmentToAgent
\* registers the middleware, and persistPunishments writes the active set
ApplyDone(op) ==
    /\ op \in ops /\ op.kind = "executePunishment" /\ op.pc = "applying"
    /\ middleware' = MiddlewareOf(op.punishment)
    /\ persisted' = activePunishments
    /\ ops' = (ops \ {op}) \cup {[op EXCEPT !.pc = "persisting"]}
    /\ returned' = <<>>
    /\ UNCHANGED <<otherVars, clock, enabled, caseCount, activePunishments,
                   punishmentHistory, override, timers, revokeCalls>>

\* executePunishment: memory.set resolved; scheduleRevocation, and the
\* return of "executed" to initiateHearing, which goes on to its return
PersistDone(op) ==
    /\ op \in ops /\ op.kind = "executePunishment" /\ op.pc = "persisting"
    /\ timers' = scheduleRevocation(op.punishment)
    /\ LET caller == CHOOSE o \in ops : /\ o.kind = "initiateHearing"
                                        /\ o.pc = "punishing"
                                        /\ o.caseData.caseId = op.punishment.caseId
       IN /\ returned' =
                << Event("executePunishment", "executed", op.punishment.caseId,
                         op.punishment.id, "punishment")
                       @@ [ punishment |->
                              [ id |-> op.punishment.id, tier |-> op.punishment.tier,
                                duration |-> op.punishment.duration,
                                expiresAt |-> op.punishment.expiresAt,
                                description |-> op.punishment.description ] ],
                   HearingReturns(caller.caseData.caseId, caller.verdict,
                                  caller.judgeCall) >>
          /\ ops' = ops \ {op, caller}
    /\ UNCHANGED <<otherVars, clock, enabled, caseCount, activePunishments,
                   punishmentHistory, persisted, override, middleware, revokeCalls>>

\* the ids at the head of `ids` that are not in the active set: for each,
\* revokePunishment returns "not_found" without an await
RECURSIVE SkipMissing(_)
SkipMissing(ids) ==
    IF ids = <<>> \/ Head(ids) \in DOMAIN activePunishments THEN 0
    ELSE 1 + SkipMissing(Tail(ids))

NotFound(ids) ==
    [i \in 1..SkipMissing(ids) |->
        Event("revokePunishment", "not_found", "", ids[i], "shutdown")]

\* a revokePunishment call at its await of clearOverrides
Revoking(id, by, call) ==
    [kind |-> "revokePunishment", pc |-> "clearing", punishmentId |-> id,
     by |-> by, call |-> call]

\* revokePunishment, were clearOverrides called before the lookup
RevokeStartClearsFirst(id, by, call) ==
    IF id \in DOMAIN activePunishments
    THEN /\ override' = NoneSet
         /\ ops' = ops \cup {Revoking(id, by, call)}
         /\ returned' = <<>>
    ELSE /\ override' = NoneSet
         /\ returned' = << Event("revokePunishment", "not_found", "", id, by) >>
         /\ UNCHANGED ops

\* revokePunishment up to its first await or its return
RevokeStart(id, by, call) ==
    IF id \in DOMAIN activePunishments
    THEN /\ override' = NoneSet
         /\ ops' = ops \cup {Revoking(id, by, call)}
         /\ returned' = <<>>
    ELSE /\ returned' = << Event("revokePunishment", "not_found", "", id, by) >>
         /\ UNCHANGED <<override, ops>>

\* revokePunishment called from outside the engine
RevokePunishment(id) ==
    /\ revokeCalls < MaxRevokes
    /\ revokeCalls' = revokeCalls + 1
    /\ RevokeStart(id, "manual", revokeCalls + 1)
    /\ UNCHANGED <<otherVars, clock, enabled, caseCount, activePunishments,
                   punishmentHistory, persisted, middleware, timers>>

\* the callback of scheduleRevocation runs, at or after its time
TimerFires(t) ==
    /\ BagIn(t, timers)
    /\ clock >= t.fireAt
    /\ timers' = timers (-) SetToBag({t})
    /\ RevokeStart(t.id, "timer", 0)
    /\ UNCHANGED <<otherVars, clock, enabled, caseCount, activePunishments,
                   punishmentHistory, persisted, middleware, revokeCalls>>

\* revokePunishment: clearOverrides resolved; the middleware is
\* unregistered, the id deleted, and persistPunishments writes the set
ClearDone(op) ==
    /\ op \in ops /\ op.kind = "revokePunishment" /\ op.pc = "clearing"
    /\ middleware' = NoneSet
    /\ activePunishments' = MapDelete(activePunishments, op.punishmentId)
    /\ persisted' = activePunishments'
    /\ ops' = (ops \ {op}) \cup {[op EXCEPT !.pc = "persisting"]}
    /\ returned' = <<>>
    /\ UNCHANGED <<otherVars, clock, enabled, caseCount, punishmentHistory,
                   override, timers, revokeCalls>>

\* revokeAllPunishments from its loop over `ids` on, `count` results in:
\* the revokePunishment of each id up to the first that awaits; when none
\* is left it returns, and shutdown unregisters the hook and returns
RevokeLoop(done, ids, count, events, called) ==
    LET k == SkipMissing(ids)
    IN IF k = Len(ids)
       THEN /\ ops' = ops \ done
            /\ returned' = events \o NotFound(ids) \o
                  << Event("revokeAllPunishments", "all_revoked", "", "",
                        ToString(count + k))
                         @@ [called |-> called],
                     Event("shutdown", "shutdown", "", "", "") >>
            /\ UNCHANGED override
       ELSE /\ ops' = (ops \ done) \cup
                  { [ kind |-> "revokeAllPunishments", pc |-> "revoking",
                      ids |-> SubSeq(ids, k + 2, Len(ids)), count |-> count + k,
                      called |-> called ],
                    Revoking(ids[k + 1], "shutdown", 0) }
            /\ override' = NoneSet
            /\ returned' = events \o NotFound(ids)

\* revokePunishment: memory.set resolved; "revoked" is returned, to the
\* loop of revokeAllPunishments when that made the call
RevokeDone(op) ==
    /\ op \in ops /\ op.kind = "revokePunishment" /\ op.pc = "persisting"
    /\ LET revoked == Event("revokePunishment", "revoked", "", op.punishmentId, op.by)
           all == CHOOSE o \in ops : o.kind = "revokeAllPunishments"
       IN IF op.by = "shutdown"
          THEN RevokeLoop({op, all}, all.ids, all.count + 1, <<revoked>>, all.called)
          ELSE /\ ops' = ops \ {op}
               /\ returned' = <<revoked>>
               /\ UNCHANGED override
    /\ UNCHANGED <<otherVars, clock, enabled, caseCount, activePunishments,
                   punishmentHistory, persisted, middleware, timers, revokeCalls>>

\* the engine as a revokeAllPunishments call finds it: the size of the
\* active set, the executions made so far and those in flight
Called ==
    [ size |-> Cardinality(DOMAIN activePunishments),
      history |-> Len(punishmentHistory),
      executing |-> Cardinality({ op \in ops : op.kind = "executePunishment" }) ]

\* CourtroomCore.shutdown up to the first await of revokeAllPunishments
Shutdown ==
    /\ enabled
    /\ enabled' = FALSE
    /\ RevokeLoop({}, ActiveKeys, 0, <<>>, Called)
    /\ UNCHANGED <<otherVars, clock, caseCount, activePunishments, punishmentHistory,
                   persisted, middleware, timers, revokeCalls>>

\* Date.now() moves on by `step` milliseconds
Advance(step) ==
    /\ clock' = clock + step
    /\ returned' = <<>>
    /\ UNCHANGED <<otherVars, enabled, caseCount, activePunishments,
                   punishmentHistory, persisted, override, middleware, timers, ops,
                   revokeCalls>>

\* time passes
Tick ==
    /\ clock < MaxTicks * ClockStep
    /\ Advance(ClockStep)

\* the ids revokePunishment is called with: every id minted, and one never minted
RevokableIds ==
    { punishmentHistory[i].id : i \in DOMAIN punishmentHistory } \cup {"punishment_0_0"}

Next ==
    \/ \E d \in Detections : InitiateHearing(d)
    \/ \E op \in ops, j \in JudgeResults, js \in JuryResults : HearingSettles(op, j, js)
    \/ \E op \in ops : ApplyDone(op)
    \/ \E op \in ops : PersistDone(op)
    \/ \E id \in RevokableIds : RevokePunishment(id)
    \/ \E t \in BagToSet(timers) : TimerFires(t)
    \/ \E op \in ops : ClearDone(op)
    \/ \E op \in ops : RevokeDone(op)
    \/ Shutdown
    \/ Tick

Spec == Init /\ [][Next]_vars


(***************************************************************************)
(* C4, C10: a hearing whose presiding call fails, and what holds when      *)
(* executePunishment returns "executed".                                   *)
(***************************************************************************)
\* the i-th call that returned in the last step is `op` with `status`
Returns(i, op, status) == returned[i].op = op /\ returned[i].status = status

\* the calls in flight made for the accusation `caseId`
OpsOf(caseId) ==
    { o \in ops : \/ o.kind = "initiateHearing" /\ o.caseData.caseId = caseId
                  \/ o.kind = "executePunishment" /\ o.punishment.caseId = caseId }

\* the punishments ever created for the accusation `caseId`
PunishmentsOf(caseId) ==
    { i \in DOMAIN punishmentHistory : punishmentHistory[i].caseId = caseId }

\* C4: when the presiding call of a hearing fails, initiateHearing rejects
\* with the error of that call: it returns no verdict, no punishment has
\* been created for the accusation, and no call is left that could create
\* one.
C4_PresidingFailurePropagates ==
    \A i \in DOMAIN returned :
        LET e == returned[i]
        IN (e.op = "initiateHearing" /\ e.judgeCall = "rejected") =>
            /\ e.status = "rejected"
            /\ e.value = "timeout"
            /\ PunishmentsOf(e.caseId) = {}
            /\ \A id \in DOMAIN activePunishments :
                  activePunishments[id].caseId # e.caseId
            /\ OpsOf(e.caseId) = {}

\* the second accusation fails on its presiding call while the punishment
\* of the first is active
C4_Witness ==
    /\ \E i \in DOMAIN returned : /\ Returns(i, "initiateHearing", "rejected")
                                  /\ returned[i].judgeCall = "rejected"
                                  /\ returned[i].caseId = "case_2"
    /\ \E id \in DOMAIN activePunishments : activePunishments[id].caseId = "case_1"

\* C10: when executePunishment returns "executed", the punishment expires
\* `duration` minutes after its creation, is in the active set and in the
\* persisted mirror, its rules are the installed override, and exactly one
\* revocation is scheduled for it.
C10_ExecutedPostconditions ==
    \A i \in DOMAIN returned :
        Returns(i, "executePunishment", "executed") =>
            LET e == returned[i]
                id == e.punishmentId
                created == { punishmentHistory[k] : k \in PunishmentsOf(e.caseId) }
            IN /\ \A p \in created :
                     e.punishment.expiresAt = p.createdAt + e.punishment.duration * MsPerMinute
               /\ id \in DOMAIN activePunishments
               /\ id \in DOMAIN persisted
               /\ override.punishmentId = id
               /\ override = OverridesOf(activePunishments[id])
               /\ \E t \in BagToSet(timers) :
                     /\ t.id = id
                     /\ CopiesIn(t, timers) = 1
                     /\ \A u \in BagToSet(timers) : u.id = id => u = t


(***************************************************************************)
(* C11: executePunishment with punishments disabled.                       *)
(***************************************************************************)
\* C11: when punishment.enabled is false, every executePunishment call
\* returns "punishments_disabled", and the step in which it returns leaves
\* the active set, the history, the persisted mirror, the override and the
\* scheduled revocations as they were; no other call returns that status.
C11_DisabledIsNoOp ==
    [][ \A i \in DOMAIN returned' :
          returned'[i].op = "executePunishment" =>
             /\ ~config.punishment.enabled <=>
                    returned'[i].status = "punishments_disabled"
             /\ ~config.punishment.enabled =>
                    UNCHANGED <<activePunishments, punishmentHistory, persisted,
                                override, timers>> ]_vars

\* a GUILTY verdict whose executePunishment returned "punishments_disabled"
C11_Witness ==
    /\ ~config.punishment.enabled
    /\ \E i \in DOMAIN returned :
          /\ Returns(i, "executePunishment", "punishments_disabled")
          /\ \E k \in DOMAIN returned :
                /\ Returns(k, "initiateHearing", "returned")
                /\ returned[k].verdict.verdict.status = "GUILTY"


(***************************************************************************)
(* PunishmentSystem.getStatus: synchronous and read-only, so what a call   *)
(* would return is a function of the state it is made in.                  *)
(***************************************************************************)
\* the quotient rounded down
CeilRoundsDown(a, b) == a \div b

\* Math.ceil(a / b) for a > 0 and b > 0
Ceil(a, b) == (a + b - 1) \div b

\* getStatus, were `expiresAt > now` not filtered on
getStatusUnfiltered ==
    LET ids == ActiveKeys
    IN [ activeCount |-> Len(ids),
         activePunishments |->
            [i \in DOMAIN ids |->
                [ id |-> ids[i], tier |-> activePunishments[ids[i]].tier,
                  expiresIn |-> Ceil(activePunishments[ids[i]].expiresAt - clock,
                                     MsPerMinute),
                  description |-> activePunishments[ids[i]].description ]],
         totalHistory |-> Len(punishmentHistory) ]

getStatus ==
    LET Live(id) == activePunishments[id].expiresAt > clock
        ids == SelectSeq(ActiveKeys, Live)
    IN [ activeCount |-> Len(ids),
         activePunishments |->
            [i \in DOMAIN ids |->
                [ id |-> ids[i], tier |-> activePunishments[ids[i]].tier,
                  expiresIn |-> Ceil(activePunishments[ids[i]].expiresAt - clock,
                                     MsPerMinute),
                  description |-> activePunishments[ids[i]].description ]],
         totalHistory |-> Len(punishmentHistory) ]

\* the ids getStatus lists
Listed == { getStatus.activePunishments[i].id : i \in DOMAIN getStatus.activePunishments }

\* the ids createPunishment has minted
MintedIds == { punishmentHistory[i].id : i \in DOMAIN punishmentHistory }

(***************************************************************************)
(* C12: revoking twice.                                                    *)
(***************************************************************************)
\* the revokePunishment calls of `id` that are in flight
RevokesOf(id) == { o \in ops : o.kind = "revokePunishment" /\ o.punishmentId = id }

\* C12: once revokePunishment(id) has returned "revoked", the id is not in
\* the active set or its mirror and getStatus does not list it; an id that has left the
\* active set never returns to it or to getStatus; and a revokePunishment
\* call made for such an id returns "not_found".
C12_RevokeTwice ==
    /\ [](\A i \in DOMAIN returned :
             Returns(i, "revokePunishment", "revoked") =>
                /\ returned[i].punishmentId \notin DOMAIN activePunishments
                /\ returned[i].punishmentId \notin DOMAIN persisted
                /\ returned[i].punishmentId \notin Listed)
    /\ [][ /\ \A id \in MintedIds :
                id \notin DOMAIN activePunishments =>
                   /\ id \notin DOMAIN activePunishments'
                   /\ id \notin Listed'
           /\ \A i \in DOMAIN returned' :
                (/\ returned'[i].op = "revokePunishment"
                 /\ returned'[i].punishmentId \in MintedIds \ DOMAIN activePunishments
                 /\ RevokesOf(returned'[i].punishmentId) = {})
                => returned'[i].status = "not_found" ]_vars

\* a punishment was revoked by a call that has returned, and a later call
\* for its id returned "not_found"
C12_Witness ==
    \E i \in DOMAIN returned :
        /\ Returns(i, "revokePunishment", "not_found")
        /\ returned[i].punishmentId \in MintedIds
        /\ RevokesOf(returned[i].punishmentId) = {}


(***************************************************************************)
(* C13: revoking an id that is not active.                                 *)
(***************************************************************************)
\* the revokePunishment calls that reach their first await in this step
RevokesBegun == { o \in ops' \ ops : o.kind = "revokePunishment" }

\* C13: a revokePunishment call for an id that is not in the active set
\* returns "not_found" (no error), and unless the same step begins the
\* revocation of another id, it leaves the active set, the persisted
\* mirror, the installed override and the middleware as they were.
C13_NotFoundIsNoOp ==
    [][ \A i \in DOMAIN returned' :
          /\ (/\ returned'[i].op = "revokePunishment"
              /\ returned'[i].punishmentId \notin DOMAIN activePunishments
              /\ RevokesOf(returned'[i].punishmentId) = {})
             => returned'[i].status = "not_found"
          /\ (returned'[i].op = "revokePunishment"
              /\ returned'[i].status = "not_found")
             => /\ returned'[i].punishmentId \notin DOMAIN activePunishments
                /\ UNCHANGED <<activePunishments, persisted>>
                /\ RevokesBegun = {} => UNCHANGED <<override, middleware>> ]_vars

\* the callback of a punishment revoked earlier runs late and returns
\* "not_found" while the override of another active punishment is installed
C13_Witness ==
    \E i \in DOMAIN returned :
        /\ Returns(i, "revokePunishment", "not_found")
        /\ returned[i].value = "timer"
        /\ override.punishmentId \in DOMAIN activePunishments
        /\ override.punishmentId # returned[i].punishmentId


(***************************************************************************)
(* C14: getStatus while time passes in steps shorter than a punishment,    *)
(* over the executions of accusations and the timer callbacks.             *)
(***************************************************************************)
StatusStep == 450000
MaxStatusTicks == 5
MaxStatusCases == 1

StatusTick ==
    /\ clock < MaxStatusTicks * StatusStep
    /\ Advance(StatusStep)

InitStatus ==
    /\ config = DEFAULT_CONFIG
    /\ fn = "none" /\ input = "none" /\ output = NoOutput
    /\ HearingIdle
    /\ ShellIdle
    /\ EngineIdle

StatusInitiateHearing(detection) ==
    /\ caseCount < MaxStatusCases
    /\ InitiateHearing(detection)

NextStatus ==
    \/ \E d \in Detections : StatusInitiateHearing(d)
    \/ \E op \in ops, j \in JudgeResults, js \in JuryResults : HearingSettles(op, j, js)
    \/ \E op \in ops : ApplyDone(op)
    \/ \E op \in ops : PersistDone(op)
    \/ \E t \in BagToSet(timers) : TimerFires(t)
    \/ \E op \in ops : ClearDone(op)
    \/ \E op \in ops : RevokeDone(op)
    \/ StatusTick

SpecStatus == InitStatus /\ [][NextStatus]_vars

\* the expiresIn getStatus reports for a listed id
ExpiresIn(id) ==
    LET list == getStatus.activePunishments
    IN list[CHOOSE i \in DOMAIN list : list[i].id = id].expiresIn

\* C14: getStatus lists exactly the stored punishments whose expiresAt
\* (createdAt + duration minutes) is later than the clock, whether or not
\* the timer callback has run; activeCount counts those; and the expiresIn
\* of a listed punishment never increases from one state to the next.
C14_ExpiryInStatus ==
    /\ [](/\ \A id \in DOMAIN activePunishments :
                LET p == activePunishments[id]
                IN /\ id \in Listed <=> clock < p.createdAt + p.duration * MsPerMinute
                   /\ id \in Listed => ExpiresIn(id) >= 1
          /\ Listed \subseteq DOMAIN activePunishments
          /\ getStatus.activeCount = Cardinality(Listed))
    /\ [][ \A id \in Listed \cap Listed' : ExpiresIn(id)' <= ExpiresIn(id) ]_vars

\* the clock is past the expiry of a stored punishment whose callback has
\* not run, and getStatus counts nothing
C14_Witness ==
    \E id \in DOMAIN activePunishments :
        /\ clock > activePunishments[id].createdAt
                      + activePunishments[id].duration * MsPerMinute
        /\ \E t \in BagToSet(timers) : t.id = id
        /\ getStatus.activeCount = 0


(***************************************************************************)
(* C15: automatic expiry. The agent's policy and memory answer every call, *)
(* and a timer whose time has come runs its callback.                      *)
(***************************************************************************)
\* time passes: up to the horizon, and beyond it while a timer is pending
ExpiryTick ==
    /\ \/ clock < MaxStatusTicks * StatusStep
       \/ \E t \in BagToSet(timers) : t.fireAt > clock
    /\ Advance(StatusStep)

NextExpiry ==
    \/ \E detection \in Detections : StatusInitiateHearing(detection)
    \/ \E op \in ops, judgeResult \in JudgeResults, juryResults \in JuryResults :
           HearingSettles(op, judgeResult, juryResults)
    \/ \E op \in ops : ApplyDone(op)
    \/ \E op \in ops : PersistDone(op)
    \/ \E t \in BagToSet(timers) : TimerFires(t)
    \/ \E op \in ops : ClearDone(op)
    \/ \E op \in ops : RevokeDone(op)
    \/ ExpiryTick

\* what every step of a call, a timer or the clock changes
progress == <<clock, timers, ops>>

Responsive ==
    /\ WF_progress(\E op \in ops : ApplyDone(op))
    /\ WF_progress(\E op \in ops : PersistDone(op))
    /\ WF_progress(\E t \in BagToSet(timers) : TimerFires(t))
    /\ WF_progress(\E op \in ops : ClearDone(op))
    /\ WF_progress(\E op \in ops : RevokeDone(op))
    /\ WF_progress(ExpiryTick)

SpecExpiry == InitStatus /\ [][NextExpiry]_vars /\ Responsive

\* every id createPunishment can mint within the horizon of the clock
ExpiryIds ==
    { "punishment_" \o ToString(k * StatusStep) \o "_" \o ToString(n) :
        k \in 0..MaxStatusTicks + 1, n \in 1..MaxStatusCases }

\* the punishment `id` is stored and the clock has reached its expiresAt
Expired(id) ==
    /\ id \in DOMAIN activePunishments
    /\ clock >= activePunishments[id].expiresAt

\* the punishment `id` is not stored and its override is not installed
Gone(id) ==
    /\ id \notin DOMAIN activePunishments
    /\ override.punishmentId # id

RestoredAll(stored, now) == stored

\* the entries initialize puts back: those with expiresAt > Date.now()
Restored(stored, now) ==
    [ id \in { k \in DOMAIN stored : stored[k].expiresAt > now } |-> stored[id] ]

InitRestart ==
    /\ config = DEFAULT_CONFIG
    /\ fn = "none" /\ input = "none" /\ output = NoOutput
    /\ HearingIdle
    /\ ShellIdle
    /\ clock \in { k * ClockStep : k \in 0..MaxRestartTicks }
    /\ enabled = FALSE
    /\ caseCount = 0
    /\ activePunishments = EmptyMap
    /\ punishmentHistory = <<>>
    /\ persisted \in { StoredMap(ns) : ns \in SUBSET (1..MaxStored) }
    /\ override \in {NoneSet} \cup { OverridesOf(persisted[id]) : id \in DOMAIN persisted }
    /\ middleware = NoneSet
    /\ timers = EmptyBag
    /\ ops = {}
    /\ revokeCalls = 0
    /\ returned = <<>>

\* the engine as its constructor leaves it: nothing stored in the active
\* set, no call in flight
Fresh == activePunishments = EmptyMap /\ ops = {}

\* initialize, to its await of memory.get
Initialize ==
    /\ ~enabled
    /\ \A op \in ops : op.kind # "initialize"
    /\ ops' = ops \cup {[kind |-> "initialize", pc |-> "loading", stored |-> persisted,
                          fresh |-> Fresh]}
    /\ returned' = <<>>
    /\ UNCHANGED <<otherVars, clock, enabled, caseCount, activePunishments,
                   punishmentHistory, persisted, override, middleware, timers,
                   revokeCalls>>

\* memory.get resolves: the loop over the stored entries, and the return.
\* applyPunishmentToAgent is called and not awaited: every call reaches
\* setOverrides, the last one's overrides stay
LoadDone(op) ==
    /\ op \in ops /\ op.kind = "initialize" /\ op.pc = "loading"
    /\ LET restored == Restored(op.stored, clock)
           order == Entries(restored)
       IN /\ activePunishments' =
                [ id \in DOMAIN activePunishments \cup DOMAIN restored |->
                    IF id \in DOMAIN restored THEN restored[id]
                    ELSE activePunishments[id] ]
          /\ override' = IF order = <<>> THEN override
                         ELSE OverridesOf(restored[order[Len(order)]])
          /\ ops' = (ops \ {op}) \cup
                    { [kind |-> "applyPunishmentToAgent", pc |-> "applying",
                       punishment |-> restored[id]] : id \in DOMAIN restored }
          /\ returned' = << Event("initialize", "initialized", "", "",
                                  ToString(Len(order))) @@ [fresh |-> op.fresh] >>
    /\ enabled' = TRUE
    /\ UNCHANGED <<otherVars, clock, caseCount, punishmentHistory, persisted,
                   middleware, timers, revokeCalls>>

\* setOverrides resolves for a restored punishment: middleware.register
RestoreApplied(op) ==
    /\ op \in ops /\ op.kind = "applyPunishmentToAgent"
    /\ middleware' = MiddlewareOf(op.punishment)
    /\ ops' = ops \ {op}
    /\ returned' = <<>>
    /\ UNCHANGED <<otherVars, clock, enabled, caseCount, activePunishments,
                   punishmentHistory, persisted, override, timers, revokeCalls>>

\* shutdown, one call at a time
RestartShutdown ==
    /\ \A op \in ops : op.kind # "revokeAllPunishments"
    /\ Shutdown

RestartTick ==
    /\ clock < MaxRestartTicks * ClockStep
    /\ Advance(ClockStep)

NextRestart ==
    \/ Initialize
    \/ \E op \in ops : LoadDone(op)
    \/ \E op \in ops : RestoreApplied(op)
    \/ RestartShutdown
    \/ \E op \in ops : ClearDone(op)
    \/ \E op \in ops : RevokeDone(op)
    \/ RestartTick

SpecRestart == InitRestart /\ [][NextRestart]_vars

\* C16: when initialize returns on a fresh engine, the active set is the
\* stored entries whose expiresAt is later than the clock, and if there is
\* one the installed override is that of a restored punishment.
C16_RestoredSet ==
    \A i \in DOMAIN returned :
        Returns(i, "initialize", "initialized") /\ returned[i].fresh =>
            /\ DOMAIN activePunishments =
                   { id \in DOMAIN persisted : persisted[id].expiresAt > clock }
            /\ \A id \in DOMAIN activePunishments :
                   activePunishments[id] = persisted[id]
            /\ DOMAIN activePunishments # {} =>
                   override.punishmentId \in DOMAIN activePunishments

\* initialize has dropped an expired entry and restored two others, over
\* the installed override of the expired one
C16_Witness ==
    /\ \E i \in DOMAIN returned :
           Returns(i, "initialize", "initialized") /\ returned[i].fresh
    /\ Cardinality(DOMAIN activePunishments) = 2
    /\ Cardinality(DOMAIN persisted) = 3
    /\ \E id \in DOMAIN persisted : persisted[id].expiresAt = clock


\* C17: when revokeAllPunishments returns and no executePunishment ran
\* between its call and its return, the active set and the mirror are
\* empty, no override is installed, and the count is the size the active
\* set had at the call.
C17_RevokeAllEmpties ==
    \A i \in DOMAIN returned :
        ( /\ Returns(i, "revokeAllPunishments", "all_revoked")
          /\ returned[i].called.executing = 0
          /\ returned[i].called.history = Len(punishmentHistory) )
        => /\ activePunishments = EmptyMap
           /\ persisted = EmptyMap
           /\ override = NoneSet
           /\ returned[i].value = ToString(returned[i].called.size)


(***************************************************************************)
(* Storage failure: memory.set may reject the write of executePunishment.  *)
(***************************************************************************)
\* applyPunishmentToAgent resolved, and the memory.set that
\* persistPunishments calls will reject: the mirror is not written
WriteFails(op) ==
    /\ op \in ops /\ op.kind = "executePunishment" /\ op.pc = "applying"
    /\ middleware' = MiddlewareOf(op.punishment)
    /\ ops' = (ops \ {op}) \cup {[op EXCEPT !.pc = "failing"]}
    /\ returned' = <<>>
    /\ UNCHANGED <<otherVars, clock, enabled, caseCount, activePunishments,
                   punishmentHistory, persisted, override, timers, revokeCalls>>

\* memory.set rejects: executePunishment rejects before scheduleRevocation,
\* and initiateHearing, which awaits it without a catch, rejects with it
PersistRejects(op) ==
    /\ op \in ops /\ op.kind = "executePunishment" /\ op.pc = "failing"
    /\ LET caller == CHOOSE o \in ops : /\ o.kind = "initiateHearing"
                                        /\ o.pc = "punishing"
                                        /\ o.caseData.caseId = op.punishment.caseId
       IN /\ returned' =
                << Event("executePunishment", "rejected", op.punishment.caseId,
                         op.punishment.id, "storage"),
                   Event("initiateHearing", "rejected", caller.caseData.caseId,
                         "", "storage") @@ [judgeCall |-> caller.judgeCall] >>
          /\ ops' = ops \ {op, caller}
    /\ UNCHANGED <<otherVars, clock, enabled, caseCount, activePunishments,
                   punishmentHistory, persisted, override, middleware, timers,
                   revokeCalls>>

NextStorage ==
    \/ \E detection \in Detections : InitiateHearing(detection)
    \/ \E op \in ops, judgeResult \in JudgeResults, juryResults \in JuryResults :
           HearingSettles(op, judgeResult, juryResults)
    \/ \E op \in ops : ApplyDone(op)
    \/ \E op \in ops : WriteFails(op)
    \/ \E op \in ops : PersistDone(op)
    \/ \E op \in ops : PersistRejects(op)
    \/ \E id \in RevokableIds : RevokePunishment(id)
    \/ \E t \in BagToSet(timers) : TimerFires(t)
    \/ \E op \in ops : ClearDone(op)
    \/ \E op \in ops : RevokeDone(op)
    \/ Tick

SpecStorage == InitStatus /\ [][NextStorage]_vars

\* C18: when executePunishment rejects because the storage write failed,
\* no "executed" is reported for the punishment, the punishment is in the
\* active set and its override is the installed one.
C18_StorageFailureSurfaced ==
    \A i \in DOMAIN returned :
        Returns(i, "executePunishment", "rejected") =>
            LET id == returned[i].punishmentId
            IN /\ \A j \in DOMAIN returned :
                      ~Returns(j, "executePunishment", "executed")
               /\ \E j \in DOMAIN returned :
                      /\ Returns(j, "initiateHearing", "rejected")
                      /\ returned[j].caseId = returned[i].caseId
               /\ id \in DOMAIN activePunishments
               /\ override.punishmentId = id


\* C19: while an executePunishment or a revokePunishment call is suspended
\* at an await, the mirror holds exactly the ids of the active set.
C19_MirrorAtSuspension ==
    \A op \in ops :
        op.kind \in {"executePunishment", "revokePunishment"} =>
            DOMAIN persisted = DOMAIN activePunishments


\* the ids a step puts into the active set
Added == DOMAIN activePunishments' \ DOMAIN activePunishments

\* C20: a step adds a punishment to the active set only for a hearing whose
\* verdict status is GUILTY, and the step in which initiateHearing returns
\* a verdict that is not GUILTY leaves the active set, the mirror and the
\* override as they were.
C20_OnlyGuiltyPunished ==
    [][ /\ \A id \in Added :
              \E op \in ops' :
                  /\ op.kind = "initiateHearing" /\ op.pc = "punishing"
                  /\ op.verdict.verdict.status = "GUILTY"
                  /\ op.verdict.caseId = activePunishments'[id].caseId
        /\ \A i \in DOMAIN returned' :
              ( /\ returned'[i].op = "initiateHearing"
                /\ returned'[i].status = "returned"
                /\ returned'[i].verdict.verdict.status # "GUILTY" )
              => UNCHANGED <<activePunishments, persisted, override>>
      ]_vars

\* a hearing has returned NOT GUILTY while a punishment of another case is
\* active with its override installed
C20_Witness ==
    /\ \E i \in DOMAIN returned :
          /\ Returns(i, "initiateHearing", "returned")
          /\ returned[i].verdict.verdict.status = "NOT GUILTY"
          /\ PunishmentsOf(returned[i].caseId) = {}
    /\ activePunishments # EmptyMap
    /\ override # NoneSet


(***************************************************************************)
(* Courtroom (index.js): consent, initialize, enable, revokeConsent.       *)
(* ConsentManager is not part of the sources: verifyConsent answers with   *)
(* what the consent store holds when it is called, revokeConsent and       *)
(* grantConsent write the store when they are called.                      *)
(***************************************************************************)
\* what the calls of Courtroom leave alone besides the flags they set
courtRest == <<config, pureVars, hearingVars, clock, caseCount, activePunishments,
               punishmentHistory, persisted, override, middleware, timers, ops,
               revokeCalls, returned, skill>>

\* no call of this method of Courtroom is in flight
NotRunning(kind) == \A c \in calls : c.kind # kind

\* consent.verifyConsent(): what the consent store holds
verifyConsent(granted) == granted

\* Courtroom.initialize to its await of verifyConsent (agent and config file
\* are there)
CourtInitialize ==
    /\ NotRunning("initialize")
    /\ calls' = calls \cup {[kind |-> "initialize", pc |-> "verifying",
                             hasConsent |-> verifyConsent(consent)]}
    /\ UNCHANGED <<courtRest, consent, courtroom, enabled>>

\* verifyConsent resolved: 'consent_required', or a new CourtroomCore and
\* the await of its initialize
InitializeVerified(c) ==
    /\ c \in calls /\ c.kind = "initialize" /\ c.pc = "verifying"
    /\ IF c.hasConsent
       THEN /\ courtroom' = [courtroom EXCEPT !.core = TRUE]
            /\ enabled' = FALSE
            /\ calls' = (calls \ {c}) \cup {[c EXCEPT !.pc = "coreInitialize"]}
       ELSE /\ calls' = calls \ {c}
            /\ UNCHANGED <<courtroom, enabled>>
    /\ UNCHANGED <<courtRest, consent>>

\* core.initialize resolved (it has set core.enabled): this.enabled = true
CoreInitialized(c) ==
    /\ c \in calls /\ c.kind = "initialize" /\ c.pc = "coreInitialize"
    /\ enabled' = TRUE
    /\ courtroom' = [courtroom EXCEPT !.enabled = TRUE]
    /\ calls' = calls \ {c}
    /\ UNCHANGED <<courtRest, consent>>

\* Courtroom.enable to its await of verifyConsent
CourtEnable ==
    /\ NotRunning("enable")
    /\ calls' = calls \cup {[kind |-> "enable", pc |-> "verifying",
                             hasConsent |-> verifyConsent(consent)]}
    /\ UNCHANGED <<courtRest, consent, courtroom, enabled>>

\* verifyConsent resolved: the throw, or core.enable() and its await
EnableVerified(c) ==
    /\ c \in calls /\ c.kind = "enable" /\ c.pc = "verifying"
    /\ IF ~c.hasConsent
       THEN /\ calls' = calls \ {c}
            /\ UNCHANGED <<courtroom, enabled>>
       ELSE IF courtroom.core
       THEN /\ enabled' = TRUE
            /\ calls' = (calls \ {c}) \cup {[c EXCEPT !.pc = "coreEnable"]}
            /\ UNCHANGED courtroom
       ELSE /\ courtroom' = [courtroom EXCEPT !.enabled = TRUE]
            /\ calls' = calls \ {c}
            /\ UNCHANGED enabled
    /\ UNCHANGED <<courtRest, consent>>

\* core.enable resolved: this.enabled = true
CoreEnabled(c) ==
    /\ c \in calls /\ c.kind = "enable" /\ c.pc = "coreEnable"
    /\ courtroom' = [courtroom EXCEPT !.enabled = TRUE]
    /\ calls' = calls \ {c}
    /\ UNCHANGED <<courtRest, consent, enabled>>

\* Courtroom.revokeConsent to its await of consent.revokeConsent
RevokeConsent ==
    /\ NotRunning("revokeConsent")
    /\ consent' = FALSE
    /\ calls' = calls \cup {[kind |-> "revokeConsent", pc |-> "revoking"]}
    /\ UNCHANGED <<courtRest, courtroom, enabled>>

\* consent.revokeConsent resolved: core.shutdown() and its await, or with
\* no core this.enabled = false
ConsentRevoked(c) ==
    /\ c \in calls /\ c.kind = "revokeConsent" /\ c.pc = "revoking"
    /\ IF courtroom.core
       THEN /\ enabled' = FALSE
            /\ calls' = (calls \ {c}) \cup {[c EXCEPT !.pc = "shutdown"]}
            /\ UNCHANGED courtroom
       ELSE /\ courtroom' = [courtroom EXCEPT !.enabled = FALSE]
            /\ calls' = calls \ {c}
            /\ UNCHANGED enabled
    /\ UNCHANGED <<courtRest, consent>>

\* core.shutdown resolved: this.enabled = false, 'consent_revoked'
CoreShutDown(c) ==
    /\ c \in calls /\ c.kind = "revokeConsent" /\ c.pc = "shutdown"
    /\ courtroom' = [courtroom EXCEPT !.enabled = FALSE]
    /\ calls' = calls \ {c}
    /\ UNCHANGED <<courtRest, consent, enabled>>

\* Courtroom.grantConsent, by a user action
GrantConsent ==
    /\ ~consent
    /\ consent' = TRUE
    /\ UNCHANGED <<courtRest, courtroom, enabled, calls>>

\* a Courtroom after its constructor: no core yet
InitConsent ==
    /\ config = DEFAULT_CONFIG
    /\ fn = "none" /\ input = "none" /\ output = NoOutput
    /\ HearingIdle
    /\ ShellIdle
    /\ clock = 0
    /\ enabled = FALSE
    /\ caseCount = 0
    /\ activePunishments = EmptyMap
    /\ punishmentHistory = <<>>
    /\ persisted = EmptyMap
    /\ override = NoneSet
    /\ middleware = NoneSet
    /\ timers = EmptyBag
    /\ ops = {}
    /\ revokeCalls = 0
    /\ returned = <<>>

NextConsent ==
    \/ CourtInitialize
    \/ \E c \in calls : InitializeVerified(c)
    \/ \E c \in calls : CoreInitialized(c)
    \/ CourtEnable
    \/ \E c \in calls : EnableVerified(c)
    \/ \E c \in calls : CoreEnabled(c)
    \/ RevokeConsent
    \/ \E c \in calls : ConsentRevoked(c)
    \/ \E c \in calls : CoreShutDown(c)
    \/ GrantConsent

SpecConsent == InitConsent /\ [][NextConsent]_vars

\* C21: with no revokeConsent call in flight, Courtroom.enabled is true
\* only while consent is granted, and a step sets it only in a call whose
\* verifyConsent returned true.
C21_EnabledOnlyWithConsent ==
    /\ [](NotRunning("revokeConsent") /\ ~consent => ~courtroom.enabled)
    /\ [][ ~courtroom.enabled /\ courtroom.enabled' =>
             \E c \in calls : c.kind \in {"initialize", "enable"} /\ c.hasConsent
         ]_vars


(***************************************************************************)
(* CourtroomSkill (skill.js): initialize, the periodic result check and    *)
(* the hearing it initiates.                                               *)
(***************************************************************************)
MaxSkillInits == 2
MaxSkillChecks == 2
MaxSkillCalls == 2

\* what the calls of the skill leave alone besides what they set
skillRest == <<config, pureVars, hearingVars, caseCount, activePunishments,
               punishmentHistory, persisted, override, middleware, timers, ops,
               revokeCalls, consent, courtroom>>

\* the skill after its constructor, with the calls made to it so far
InitSkill ==
    /\ config = DEFAULT_CONFIG
    /\ fn = "none" /\ input = "none" /\ output = NoOutput
    /\ HearingIdle
    /\ consent = TRUE
    /\ courtroom = [enabled |-> FALSE, core |-> FALSE]
    /\ skill = [initialized |-> FALSE, core |-> FALSE, intervals |-> 0,
                inits |-> 0, checks |-> 0,
                handleLive |-> FALSE, cores |-> 0, coreLive |-> FALSE, lifecycle |-> 0]
    /\ calls = {}
    /\ clock = 0
    /\ enabled = FALSE
    /\ caseCount = 0
    /\ activePunishments = EmptyMap
    /\ punishmentHistory = <<>>
    /\ persisted = EmptyMap
    /\ override = NoneSet
    /\ middleware = NoneSet
    /\ timers = EmptyBag
    /\ ops = {}
    /\ revokeCalls = 0
    /\ returned = <<>>

\* the fields of the skill: `core` is whether this.core is set and
\* `coreLive` whether that core has not been shut down; `cores` counts the
\* cores constructed and not shut down; `intervals` counts the intervals
\* running and `handleLive` is whether this.resultCheckInterval is one of
\* them

\* startResultChecking: this.resultCheckInterval = setInterval(...)
startResultChecking(sk) == [sk EXCEPT !.intervals = @ + 1, !.handleLive = TRUE]

\* clearInterval(this.resultCheckInterval) when the handle is set
clearResultChecking(sk) ==
    [sk EXCEPT !.intervals = IF sk.handleLive THEN @ - 1 ELSE @, !.handleLive = FALSE]

\* this.core = new CourtroomCore(...)
newCore == [skill EXCEPT !.core = TRUE, !.coreLive = TRUE, !.cores = @ + 1]

\* skill.initialize: the early returns, or on to its awaits of
\* configManager.load and evaluator.initialize
SkillInitialize ==
    /\ skill.inits < MaxSkillInits
    /\ IF skill.initialized \/ ~consent
       THEN calls' = calls
       ELSE calls' = calls \cup {[kind |-> "skill.initialize", pc |-> "loading",
                                  call |-> skill.inits + 1]}
    /\ skill' = [skill EXCEPT !.inits = @ + 1]
    /\ returned' = <<>>
    /\ UNCHANGED <<skillRest, clock, enabled>>

\* the evaluator is ready: this.core = new CourtroomCore, and the await of
\* core.initialize
SkillLoaded(c) ==
    /\ c \in calls /\ c.kind = "skill.initialize" /\ c.pc = "loading"
    /\ skill' = newCore
    /\ enabled' = FALSE
    /\ calls' = (calls \ {c}) \cup {[c EXCEPT !.pc = "coreInitialize"]}
    /\ returned' = <<>>
    /\ UNCHANGED <<skillRest, clock>>

\* core.initialize resolved with 'initialized': the skill is initialized and
\* startResultChecking sets an interval
SkillCoreInitialized(c) ==
    /\ c \in calls /\ c.kind = "skill.initialize" /\ c.pc = "coreInitialize"
    /\ enabled' = TRUE
    /\ skill' = startResultChecking([skill EXCEPT !.initialized = TRUE])
    /\ calls' = calls \ {c}
    /\ returned' = <<>>
    /\ UNCHANGED <<skillRest, clock>>

\* what the evaluator hands back when an offense was found
EvaluationResults ==
    { [ triggered |-> TRUE,
        offense |-> [ offenseId |-> "overthinker", offenseName |-> "The Overthinker",
                      severity |-> s, confidence |-> 80,
                      evidence |-> [items |-> <<"e1", "e2">>, sessionTurns |-> 20] ],
        reasoning |-> "Twelve obstacles, zero attempts." ] :
      s \in {"minor", "moderate", "severe"} }

\* checkForEvaluationResults: the detection built from a triggered result
DetectionOf(result) ==
    [ triggered |-> TRUE,
      offenseId |-> result.offense.offenseId,
      offenseName |-> result.offense.offenseName,
      severity |-> result.offense.severity,
      confidence |-> result.offense.confidence,
      evidence |-> result.offense.evidence,
      reasoning |-> result.reasoning ]

\* the detection as conductHearing reads it: caseId and humorTriggers are
\* undefined
AsCaseData(detection) == detection @@ [caseId |-> "undefined", humorTriggers |-> {}]

\* `verdict.guilty` as a condition: an absent property is undefined
Truthy(record, field) == IF field \in DOMAIN record THEN record[field] ELSE FALSE

\* the interval fires and the evaluator has a triggered result:
\* skill.initiateHearing to its await of conductHearing
SkillCheck(result) ==
    /\ skill.intervals > 0
    /\ skill.core
    /\ skill.checks < MaxSkillChecks
    /\ skill' = [skill EXCEPT !.checks = @ + 1]
    /\ calls' = calls \cup {[kind |-> "skill.initiateHearing", pc |-> "hearing",
                             call |-> skill.checks + 1,
                             detection |-> DetectionOf(result)]}
    /\ returned' = <<>>
    /\ UNCHANGED <<skillRest, clock, enabled>>

\* conductHearing settles. A rejection is caught and logged. On a verdict
\* the skill tests `verdict.guilty`; in that branch it calls
\* this.core.punishment.execute, which PunishmentSystem does not have: the
\* TypeError is caught after caseCount++
SkillHearingSettles(c, judgeResult, juryResults) ==
    /\ c \in calls /\ c.kind = "skill.initiateHearing" /\ c.pc = "hearing"
    /\ \E first \in FirstFailures(judgeResult, juryResults, config) :
        LET result == conductHearing(AsCaseData(c.detection), judgeResult,
                                     juryResults, first, config)
        IN IF result.threw
           THEN /\ returned' = << Event("skill.initiateHearing", "caught", "", "",
                                        result.value) >>
                /\ UNCHANGED caseCount
           ELSE IF Truthy(result.value, "guilty")
           THEN /\ caseCount' = caseCount + 1
                /\ returned' = << Event("skill.initiateHearing", "caught", "", "",
                                        "TypeError") >>
           ELSE /\ returned' = << Event("skill.initiateHearing", "returned",
                                        ToString(c.call), "", "verdict")
                                  @@ [verdict |-> result.value] >>
                /\ UNCHANGED caseCount
    /\ calls' = calls \ {c}
    /\ UNCHANGED <<config, pureVars, hearingVars, activePunishments,
                   punishmentHistory, persisted, override, middleware, timers, ops,
                   revokeCalls, consent, courtroom, skill, clock, enabled>>

\* skill.disable: core.disable and its await, or without a core to the end
SkillDisable ==
    /\ skill.lifecycle < MaxSkillCalls
    /\ IF skill.core
       THEN /\ enabled' = FALSE
            /\ skill' = [skill EXCEPT !.lifecycle = @ + 1]
            /\ calls' = calls \cup {[kind |-> "skill.disable", pc |-> "disabling",
                                     call |-> skill.lifecycle + 1]}
            /\ returned' = <<>>
       ELSE /\ skill' = clearResultChecking([skill EXCEPT !.lifecycle = @ + 1])
            /\ returned' = << Event("skill.disable", "returned", "", "", "") >>
            /\ UNCHANGED <<enabled, calls>>
    /\ UNCHANGED <<skillRest, clock>>

\* skill.disable after core.disable: clearInterval
SkillDisabled(c) ==
    /\ c \in calls /\ c.kind = "skill.disable"
    /\ skill' = clearResultChecking(skill)
    /\ calls' = calls \ {c}
    /\ returned' = << Event("skill.disable", "returned", "", "", "") >>
    /\ UNCHANGED <<skillRest, clock, enabled>>

\* skill.enable: core.enable and its await, or without a core to the end
SkillEnable ==
    /\ skill.lifecycle < MaxSkillCalls
    /\ IF skill.core
       THEN /\ enabled' = TRUE
            /\ skill' = [skill EXCEPT !.lifecycle = @ + 1]
            /\ calls' = calls \cup {[kind |-> "skill.enable", pc |-> "enabling",
                                     call |-> skill.lifecycle + 1]}
            /\ returned' = <<>>
       ELSE /\ skill' = startResultChecking([skill EXCEPT !.lifecycle = @ + 1])
            /\ returned' = << Event("skill.enable", "returned", "", "", "") >>
            /\ UNCHANGED <<enabled, calls>>
    /\ UNCHANGED <<skillRest, clock>>

\* skill.enable after core.enable: startResultChecking
SkillEnabled(c) ==
    /\ c \in calls /\ c.kind = "skill.enable"
    /\ skill' = startResultChecking(skill)
    /\ calls' = calls \ {c}
    /\ returned' = << Event("skill.enable", "returned", "", "", "") >>
    /\ UNCHANGED <<skillRest, clock, enabled>>

\* skill.shutdown: clearInterval, then core.shutdown and its await (the
\* active set is empty: revokeAllPunishments has nothing to revoke), or
\* without a core to the end
SkillShutdown ==
    /\ skill.lifecycle < MaxSkillCalls
    /\ LET cleared == clearResultChecking([skill EXCEPT !.lifecycle = @ + 1])
       IN IF skill.core
          THEN /\ enabled' = FALSE
               /\ skill' = [cleared EXCEPT !.coreLive = FALSE,
                                           !.cores = IF skill.coreLive THEN @ - 1 ELSE @]
               /\ calls' = calls \cup {[kind |-> "skill.shutdown", pc |-> "shuttingDown",
                                        call |-> skill.lifecycle + 1]}
               /\ returned' = <<>>
          ELSE /\ skill' = [cleared EXCEPT !.initialized = FALSE]
               /\ returned' = << Event("skill.shutdown", "returned", "", "", "") >>
               /\ UNCHANGED <<enabled, calls>>
    /\ UNCHANGED <<skillRest, clock>>

\* skill.shutdown after core.shutdown: this.initialized = false
SkillShutDown(c) ==
    /\ c \in calls /\ c.kind = "skill.shutdown"
    /\ skill' = [skill EXCEPT !.initialized = FALSE]
    /\ calls' = calls \ {c}
    /\ returned' = << Event("skill.shutdown", "returned", "", "", "") >>
    /\ UNCHANGED <<skillRest, clock, enabled>>

SkillTick ==
    /\ clock < MaxTicks * ClockStep
    /\ clock' = clock + ClockStep
    /\ returned' = <<>>
    /\ UNCHANGED <<skillRest, skill, calls, enabled>>

NextSkill ==
    \/ SkillInitialize
    \/ \E c \in calls : SkillLoaded(c)
    \/ \E c \in calls : SkillCoreInitialized(c)
    \/ \E result \in EvaluationResults : SkillCheck(result)
    \/ \E c \in calls, judgeResult \in JudgeResults, juryResults \in JuryResults :
           SkillHearingSettles(c, judgeResult, juryResults)
    \/ SkillTick

SpecSkill == InitSkill /\ [][NextSkill]_vars

\* the calls that start and stop the skill, in any order and interleaving
NextLifecycle ==
    \/ SkillInitialize
    \/ \E c \in calls : SkillLoaded(c)
    \/ \E c \in calls : SkillCoreInitialized(c)
    \/ SkillDisable
    \/ \E c \in calls : SkillDisabled(c)
    \/ SkillEnable
    \/ \E c \in calls : SkillEnabled(c)
    \/ SkillShutdown
    \/ \E c \in calls : SkillShutDown(c)

SpecLifecycle == InitSkill /\ [][NextLifecycle]_vars

Settled(i) == i \in DOMAIN jurorCalls /\ jurorCalls[i].call \in {"resolved", "rejected"}

\* C24: every selected peer call is dispatched before any peer response is
\* awaited: the step that dispatches a peer call dispatches all of them,
\* and while peer responses are awaited, or once one has settled, every
\* selected peer has been called.
C24_PeersDispatchedTogether ==
    /\ []( (hpc = "awaitJury" \/ \E i \in DOMAIN jurorCalls : Settled(i))
           => DOMAIN jurorCalls = DOMAIN SelectedJurors(config) )
    /\ [][ (\E i \in DOMAIN jurorCalls' : i \notin DOMAIN jurorCalls)
           => /\ DOMAIN jurorCalls' = DOMAIN SelectedJurors(config)
              /\ \A j \in DOMAIN jurorCalls' : jurorCalls'[j].call = "inFlight"
         ]_vars

\* a slow first peer: the other two were called and have answered
C24_Witness ==
    /\ hpc = "awaitJury"
    /\ Len(jurorCalls) = 3
    /\ jurorCalls[1].call = "inFlight"
    /\ jurorCalls[2].call = "resolved"
    /\ jurorCalls[3].call = "resolved"

\* C25: the presiding call and the peer calls run concurrently: while the
\* presiding call is outstanding the selected peer calls are in flight.
C25_PresidingAndPeersConcurrent ==
    (judgeCall = "inFlight" /\ Len(SelectedJurors(config)) > 0)
    => /\ DOMAIN jurorCalls = DOMAIN SelectedJurors(config)
       /\ \E i \in DOMAIN jurorCalls : jurorCalls[i].call = "inFlight"

\* the declared roles, in their declared order
DeclaredRoles == <<"The Pragmatist", "The Pattern Matcher", "The Agent Advocate">>

InvokedRoles ==
    SubSeq(DeclaredRoles, 1,
           IF config.hearing.jurySize < 3 THEN config.hearing.jurySize ELSE 3)

\* C30: a hearing calls exactly the first min(jurySize, 3) roles in their
\* declared order, a settled peer's vote stays at its role's position
\* whichever calls settled before it, and the tally and the verdict list the
\* peer opinions in that order.
C30_RoleOrder ==
    /\ (hpc \in {"awaitJury", "done"}) =>
          /\ Len(jurorCalls) = Len(InvokedRoles)
          /\ \A i \in DOMAIN jurorCalls :
                /\ jurorCalls[i].role = InvokedRoles[i]
                /\ jurorCalls[i].vote # NoOpinion => jurorCalls[i].vote.juror = InvokedRoles[i]
    /\ hpc = "done" =>
          LET v == hearingResult.value
          IN /\ [i \in DOMAIN theVoteTally.juryVotes |-> theVoteTally.juryVotes[i].juror]
                   = InvokedRoles
             /\ [i \in DOMAIN v.deliberation.jury |-> v.deliberation.jury[i].juror]
                   = InvokedRoles
             /\ [i \in DOMAIN v.proceedings.jury_deliberations |->
                   v.proceedings.jury_deliberations[i].role] = InvokedRoles
             /\ \A i \in DOMAIN jurorCalls :
                   /\ theVoteTally.juryVotes[i].verdict = jurorCalls[i].vote.verdict
                   /\ v.deliberation.jury[i].verdict = jurorCalls[i].vote.verdict

\* the last role answered first, and differently from the first role
C30_Witness ==
    /\ hpc = "done"
    /\ config.hearing.jurySize > 3
    /\ Len(theVoteTally.juryVotes) = 3
    /\ theVoteTally.juryVotes[1].verdict = "GUILTY"
    /\ theVoteTally.juryVotes[3].verdict = "NOT GUILTY"
    /\ hearingResult.value.deliberation.jury[3].juror = "The Agent Advocate"


\* C26: once a manual revoke made before the punishment's expiry has
\* returned 'revoked', no scheduled revocation of that punishment is pending.
C26_EarlyRevokeCancelsTimer ==
    \A i \in DOMAIN returned :
        ( /\ Returns(i, "revokePunishment", "revoked")
          /\ returned[i].value = "manual" )
        => ~ \E t \in BagToSet(timers) :
                 /\ t.id = returned[i].punishmentId
                 /\ clock < t.fireAt


\* C27: when initialize has returned after a restart, every restored
\* punishment has a revocation scheduled, due no later than its persisted
\* expiresAt.
C27_RestoredHaveTimers ==
    \A i \in DOMAIN returned :
        Returns(i, "initialize", "initialized") =>
            \A id \in DOMAIN activePunishments :
                \E t \in BagToSet(timers) :
                    t.id = id /\ t.fireAt <= Max(clock + 1, activePunishments[id].expiresAt)


(***************************************************************************)
(* The agent commentary of a verdict: finalizeVerdict over parsed peer     *)
(* opinions that carry commentary or none, under a tight and the default    *)
(* commentary length.                                                       *)
(***************************************************************************)
TightCommentaryLength == 100

\* what each peer says when it comments
PeerCommentary ==
    << "The request was answered twice and asked again regardless.",
       "This is the third time the same pattern has shown up here.",
       "The agent did what was asked; the loop is not its doing." >>

\* the parsed opinion of peer i voting v, with its commentary or without
PeerOpinion(i, v, commented) ==
    parseJurorResponse(
        StringResponse("VERDICT: " \o v \o
                       (IF commented THEN "\nCOMMENTARY: " \o PeerCommentary[i] ELSE "")),
        JurorNames[i]).value

CommentedVoteLists ==
    UNION { { [i \in 1..n |-> PeerOpinion(i, vs[i], cs[i])] :
                vs \in [1..n -> VerdictValues], cs \in [1..n -> BOOLEAN] } :
            n \in 0..MaxPeers }

CommentaryConfigs ==
    { [DEFAULT_CONFIG EXCEPT !.hearing.requireUnanimity = u,
                             !.humor.maxCommentaryLength = len] :
        u \in BOOLEAN, len \in {TightCommentaryLength, 280} }

InitCommentary ==
    /\ HearingIdle
    /\ ShellIdle
    /\ EngineIdle
    /\ config \in CommentaryConfigs
    /\ fn = "none"
    /\ input \in [ caseData : { cd \in CaseDatas : cd.severity = "moderate" },
                   judgeOpinion : { parseJudgeResponse(StringResponse("VERDICT: " \o v)).value :
                                      v \in {"GUILTY", "NOT GUILTY"} },
                   juryVotes : CommentedVoteLists ]
    /\ output = NoOutput

\* conductHearing, steps 4 and 5: aggregateVotes and finalizeVerdict
FinalizeVerdict ==
    /\ fn = "none"
    /\ fn' = "finalizeVerdict"
    /\ output' = Return(finalizeVerdict(
                     input.caseData, input.judgeOpinion, input.juryVotes,
                     aggregateVotes(input.judgeOpinion, input.juryVotes, config),
                     config))
    /\ UNCHANGED <<config, shellVars, input, nonPureVars>>

NextCommentary == FinalizeVerdict

SpecCommentary == InitCommentary /\ [][NextCommentary]_vars

\* `piece` occurs in `text`
Contains(text, piece) ==
    \E k \in 1..(Len(text) - Len(piece) + 1) :
        SubSeq(text, k, k + Len(piece) - 1) = piece

NeutralSentence ==
    "The jury found insufficient evidence of behavioral violation. Case dismissed."

\* the peers that supplied commentary and voted v / did not vote v
Commenting(v) ==
    { i \in DOMAIN input.juryVotes :
        input.juryVotes[i].commentary # "" /\ input.juryVotes[i].verdict = v }

CommentingAgainst(v) ==
    { i \in DOMAIN input.juryVotes :
        input.juryVotes[i].commentary # "" /\ input.juryVotes[i].verdict # v }

\* the peers whose commentary appears in the agent commentary
UsedIn(commentary) ==
    { i \in DOMAIN input.juryVotes :
        /\ input.juryVotes[i].commentary # ""
        /\ Contains(commentary, input.juryVotes[i].commentary) }

\* C28: where nothing is cut, the agent commentary uses the commentary of at
\* most two peers, all of them agreeing with the final outcome whenever an
\* agreeing peer supplied commentary, opposing peers only when none did, and
\* it is the neutral sentence exactly when no peer supplied commentary.
C28_AgreeingCommentaryFirst ==
    (fn = "finalizeVerdict" /\ config.humor.maxCommentaryLength = 280) =>
        LET final == output.value.verdict.status
            commentary == output.value.verdict.agentCommentary
            used == UsedIn(commentary)
        IN /\ Cardinality(used) <= 2
           /\ Commenting(final) # {} => (used # {} /\ used \subseteq Commenting(final))
           /\ (Commenting(final) = {} /\ CommentingAgainst(final) # {})
                 => (used # {} /\ used \subseteq CommentingAgainst(final))
           /\ (commentary = NeutralSentence)
                 <=> (Commenting(final) = {} /\ CommentingAgainst(final) = {})

\* C29: whichever branch built it (agreeing peers, opposing peers or the
\* neutral sentence), the agent commentary of a verdict is at most
\* humor.maxCommentaryLength characters long.
C29_CommentaryBounded ==
    fn = "finalizeVerdict" =>
        LET commentary == output.value.verdict.agentCommentary
        IN Len(commentary) <= config.humor.maxCommentaryLength


(***************************************************************************)
(* C31: the entries of getStatus.                                          *)
(***************************************************************************)
\* C31: every entry getStatus lists belongs to a stored punishment whose
\* expiresAt is later than the clock; its expiresIn is the remaining time
\* in minutes rounded up, at least 1 and at most the punishment's
\* duration; and activeCount is the number of entries.
C31_ExpiresInRoundedUp ==
    LET status == getStatus
    IN /\ status.activeCount = Len(status.activePunishments)
       /\ \A i \in DOMAIN status.activePunishments :
             LET e == status.activePunishments[i]
                 p == activePunishments[e.id]
                 remaining == p.expiresAt - clock
             IN /\ e.id \in DOMAIN activePunishments
                /\ remaining > 0
                /\ (e.expiresIn - 1) * MsPerMinute < remaining
                /\ remaining <= e.expiresIn * MsPerMinute
                /\ e.expiresIn >= 1
                /\ e.expiresIn <= p.duration

\* an entry whose remaining time is not a whole number of minutes
C31_Witness ==
    \E i \in DOMAIN getStatus.activePunishments :
        LET e == getStatus.activePunishments[i]
            remaining == activePunishments[e.id].expiresAt - clock
        IN /\ remaining < e.expiresIn * MsPerMinute
           /\ e.expiresIn < activePunishments[e.id].duration
           /\ getStatus.activeCount = 1


(***************************************************************************)
(* C32: the override and the active set.                                   *)
(***************************************************************************)
\* C32: whenever no punishment operation is in flight, the courtroom
\* override is installed if and only if the active set is not empty.
C32_OverrideIffActive ==
    ops = {} => (override # NoneSet <=> DOMAIN activePunishments # {})


(***************************************************************************)
(* C33: the revocations of one id.                                         *)
(***************************************************************************)
\* the ids for which a revokePunishment call returned "revoked" in the
\* last step
RevokedNow ==
    { returned[i].punishmentId :
        i \in { k \in DOMAIN returned : Returns(k, "revokePunishment", "revoked") } }

\* C33: for any punishment id at most one revokePunishment call returns
\* "revoked": no step returns it twice for one id, and a step in which it
\* is returned for an id is not followed by another such step for that id.
C33_RevokedOnce ==
    /\ [](\A i, k \in DOMAIN returned :
             ( /\ Returns(i, "revokePunishment", "revoked")
               /\ Returns(k, "revokePunishment", "revoked")
               /\ returned[i].punishmentId = returned[k].punishmentId ) => i = k)
    /\ [][ RevokedNow \cap RevokedNow' = {} ]_vars


(***************************************************************************)
(* C35: the duration cap.                                                  *)
(***************************************************************************)
\* C35: for every configured tier table, severity and tally, the duration
\* of the resolved tier, and of the punishment created from it, is at most
\* punishment.maxDuration.
C35_DurationCapped ==
    fn \in {"determinePunishmentTier", "createPunishment"} =>
        output.value.duration <= config.punishment.maxDuration


(***************************************************************************)
(* Long punishments. Time is counted in whole minutes here, so that        *)
(* delays beyond the 2147483647 ms cap of setTimeout stay within the       *)
(* integers of the model: a timer set to the cap has run by the first      *)
(* whole minute after it.                                                  *)
(***************************************************************************)
LongDuration == 40000
MaxLongTicks == 2
MaxLongCases == 2

\* Math.min(delay, 2147483647), in minutes rounded up
CapMinutes == MaxTimeout \div MsPerMinute + 1

LongConfigs ==
    { [DEFAULT_CONFIG EXCEPT !.punishment.tiers.minor.duration = d,
                             !.punishment.maxDuration = LongDuration] :
        d \in {30, 1440, LongDuration} }

InitLong ==
    /\ config \in LongConfigs
    /\ fn = "none" /\ input = "none" /\ output = NoOutput
    /\ HearingIdle
    /\ ShellIdle
    /\ EngineIdle

\* createPunishment with the clock in minutes: expiresAt = now + duration
createPunishmentInMinutes(verdict, now, id) ==
    [ id |-> id,
      caseId |-> verdict.caseId,
      tier |-> verdict.punishment.tier,
      severity |-> verdict.punishment.severity,
      duration |-> verdict.punishment.duration,
      createdAt |-> now,
      expiresAt |-> now + verdict.punishment.duration,
      description |-> verdict.punishment.description,
      rules |-> getPunishmentRules(verdict.punishment.tier) ]

\* setTimeout(callback, Math.min(delay, 2147483647)) with the clock in
\* minutes
TimerInMinutes(punishment) ==
    [ id |-> punishment.id,
      fireAt |-> clock + Max(1, Min(punishment.expiresAt - clock, CapMinutes)) ]

\* executePunishment for a GUILTY verdict of a minor offense, up to the
\* await of setOverrides
ExecuteLong ==
    /\ caseCount < MaxLongCases
    /\ caseCount' = caseCount + 1
    /\ LET caseData == [caseId |-> "case_" \o ToString(caseCount + 1), severity |-> "minor"]
           verdict == [ caseId |-> caseData.caseId,
                        punishment |-> determinePunishmentTier(
                            caseData, [guilty |-> 3, notGuilty |-> 1, total |-> 4], config) ]
           punishment == createPunishmentInMinutes(verdict, clock, MintId)
       IN /\ activePunishments' = MapSet(activePunishments, punishment.id, punishment)
          /\ punishmentHistory' = Append(punishmentHistory,
                                         punishment @@ [executedAt |-> clock])
          /\ override' = OverridesOf(punishment)
          /\ ops' = ops \cup { [ kind |-> "executePunishment", pc |-> "applying",
                                 punishment |-> punishment ] }
    /\ returned' = <<>>
    /\ UNCHANGED <<otherVars, clock, enabled, persisted, middleware, timers, revokeCalls>>

\* executePunishment: memory.set resolved; scheduleRevocation and the return
LongPersistDone(op) ==
    /\ op \in ops /\ op.kind = "executePunishment" /\ op.pc = "persisting"
    /\ timers' = timers (+) SetToBag({TimerInMinutes(op.punishment)})
    /\ ops' = ops \ {op}
    /\ returned' = << Event("executePunishment", "executed", op.punishment.caseId,
                            op.punishment.id, "punishment") >>
    /\ UNCHANGED <<otherVars, clock, enabled, caseCount, activePunishments,
                   punishmentHistory, persisted, override, middleware, revokeCalls>>

\* time passes, by the span of the timer cap
LongTick ==
    /\ clock < MaxLongTicks * CapMinutes
    /\ Advance(CapMinutes)

NextLong ==
    \/ ExecuteLong
    \/ \E op \in ops : ApplyDone(op)
    \/ \E op \in ops : LongPersistDone(op)
    \/ \E t \in BagToSet(timers) : TimerFires(t)
    \/ \E op \in ops : ClearDone(op)
    \/ \E op \in ops : RevokeDone(op)
    \/ LongTick

SpecLong == InitLong /\ [][NextLong]_vars

\* C34: a step in which the scheduled revocation of a punishment removes it
\* from the active set is taken at or after the punishment's expiresAt.
C34_NoEarlyExpiry ==
    [][ \A id \in DOMAIN activePunishments :
          ( /\ id \notin DOMAIN activePunishments'
            /\ \E op \in ops : /\ op.kind = "revokePunishment"
                               /\ op.by = "timer"
                               /\ op.punishmentId = id )
          => clock >= activePunishments[id].expiresAt ]_vars


(***************************************************************************)
(* C36: shutdown and the hearings in flight. Hearings are started by the   *)
(* autonomy hook, which returns at once when the core is not enabled.      *)
(***************************************************************************)
\* the hook onTurnComplete with a detection that triggered: evaluateIfReady
\* calls initiateHearing
TurnComplete(detection) ==
    /\ enabled
    /\ InitiateHearing(detection)

NextShutdown ==
    \/ \E d \in Detections : TurnComplete(d)
    \/ \E op \in ops, j \in JudgeResults, js \in JuryResults : HearingSettles(op, j, js)
    \/ \E op \in ops : ApplyDone(op)
    \/ \E op \in ops : PersistDone(op)
    \/ \E t \in BagToSet(timers) : TimerFires(t)
    \/ \E op \in ops : ClearDone(op)
    \/ \E op \in ops : RevokeDone(op)
    \/ Shutdown
    \/ Tick

SpecShutdown == Init /\ [][NextShutdown]_vars

\* shutdown() has returned: the core is disabled and its
\* revokeAllPunishments is not in flight
ShutdownCompleted ==
    /\ ~enabled
    /\ \A o \in ops : o.kind # "revokeAllPunishments"

\* C36: once shutdown() has completed, the active set is empty.
C36_EmptyAfterShutdown == ShutdownCompleted => DOMAIN activePunishments = {}


(***************************************************************************)
(* C37: the persisted mirror when the engine is at rest.                   *)
(***************************************************************************)
\* C37: whenever the engine has been initialized and no punishment
\* operation is in flight, the persisted mirror holds exactly the
\* punishments of the active set.
C37_MirrorEqualsActive ==
    (enabled /\ ops = {}) => persisted = activePunishments


(***************************************************************************)
(* C38: the timers and cores of the singleton skill.                       *)
(***************************************************************************)
\* C38: at any time at most one result-checking interval is running and at
\* most one core exists, and when disable or shutdown has returned no
\* result-checking interval is running.
C38_OneTimerOneCore ==
    /\ skill.intervals <= 1
    /\ skill.cores <= 1
    /\ \A i \in DOMAIN returned :
          ( \/ Returns(i, "skill.disable", "returned")
            \/ Returns(i, "skill.shutdown", "returned") )
          => skill.intervals = 0


(***************************************************************************)
(* C39: from the response text to the vote.                                *)
(***************************************************************************)
\* the text has a line that, trimmed, is "VERDICT:" followed by a value
\* that, trimmed and upper-cased, is exactly GUILTY
HasVerdictGuilty(text) ==
    \E l \in { trim(split(text, "\n")[i]) : i \in DOMAIN split(text, "\n") } :
        /\ startsWith(l, PrefixVerdict)
        /\ toUpperCase(trim(SubSeq(l, Len(PrefixVerdict) + 1, Len(l)))) = "GUILTY"

\* the tally of the parsed opinion alone: as the presiding opinion without
\* peers, or as the one peer beside a presiding NOT GUILTY
TallyOf(opinion) ==
    IF fn = "parseJudgeResponse"
    THEN aggregateVotes(opinion, <<>>, config)
    ELSE aggregateVotes([verdict |-> "NOT GUILTY"], <<opinion>>, config)

\* C39: every response yields an opinion; it is counted as a guilty vote
\* only if its text has a VERDICT: line whose trimmed, upper-cased value is
\* exactly GUILTY, and as a not-guilty vote whenever it has none.
C39_OnlyExactGuiltyCounts ==
    Parsed =>
        /\ ~output.threw
        /\ LET tally == TallyOf(output.value)
           IN /\ tally.guilty = 1 => HasVerdictGuilty(InputText)
              /\ ~HasVerdictGuilty(InputText) =>
                    /\ tally.guilty = 0
                    /\ tally.notGuilty = tally.total

=============================================================================
